---- MODULE Spec2Model ----
(***************************************************************************)
(* Model of the post container of 8-bits (bits.posts.PostContainer): the   *)
(* identity index postIdMap, the ordered children of the container, the    *)
(* lowest sequence id seen and the scroll position of the container        *)
(* element.                                                                *)
(***************************************************************************)
EXTENDS Integers, Sequences, FiniteSets, TLC

\* ------------------------------------------------------------------ bounds
MaxPosts == 3          \* most posts the model lets a container hold
MaxBatch == 2          \* longest historical batch
MaxSeq == 2            \* highest sequence id the server hands out
ClientHeight == 2      \* clientHeight of the container element, in lines
MaxLive == 2           \* longest series of live deliveries (SpecInterleave)
MaxPages == 2          \* most historical batches in a series (SpecInterleave)
MaxOutstanding == 3    \* most requests the model lets wait at the XhrManager (SpecBackfill)
MaxRequestId == 4      \* the model sends no request once nextMessageId_ is here (SpecBackfill)
MaxMessageId == 6      \* the model reports no error once nextMessageId_ is here (SpecBus)
MaxBusPosts == 2       \* most posts the bus delivers to a container (SpecBus, SpecBackfill)
MaxConnectId == 7      \* the model sends no request once nextMessageId_ is here (SpecConnect)
MaxRetryId == 12       \* the model lets no callback run once nextMessageId_ is here (SpecRetry)
MaxSent == 1000        \* most posts of the user's that the model counts without following (SpecNotifier)

\* ------------------------------------------------------------ JS values
\* null / undefined of a numeric field
Null == -1
\* null of a string field (String(null), the key goog.structs.Map files it under)
NullStr == "null"
\* a missing or empty postId of a post map
NoId == ""

PostIds == {"a", "b"}
SeqIds == 1..MaxSeq

\* x || null of the Post constructor, for a number: 0, null and undefined are falsy
OrNullNum(x) == IF x = Null \/ x = 0 THEN Null ELSE x
\* mutant of OrNullStr: a missing postId is kept as it came
OrNullStrAsGiven(x) == x

\* x || null of the Post constructor, for a string: "" , null and undefined are falsy
OrNullStr(x) == IF x = NoId THEN NullStr ELSE x
\* truthiness of a number-or-null
Truthy(x) == x # Null /\ x # 0
\* ToNumber of a number-or-null, as the operators - and < apply it
Num(x) == IF x = Null THEN 0 ELSE x

\* the post maps the event bus delivers
PostMaps == [postId : PostIds \cup {NoId}, sequenceId : {Null} \cup (0..MaxSeq)]

\* the post maps of a page of history: the server files every post it
\* stores under a sequence id
HistoricalPostMaps == [postId : PostIds \cup {NoId}, sequenceId : SeqIds]

\* new bits.posts.Post(postMap)
Post(postMap) ==
  [postId |-> OrNullStr(postMap.postId),
   sequenceId |-> OrNullNum(postMap.sequenceId)]

\* the lines the element of a post takes once rendered: set by its archive
\* type and body, which go with the post id; createDom leaves the element
\* empty for the archive types it has no case for
RenderedHeight(post) ==
  IF post.postId = "b" THEN 2 ELSE IF post.postId = NullStr THEN 0 ELSE 1

\* --------------------------------------------------------------- state
VARIABLES
  heap,              \* the Post objects the container holds: object id -> fields
  postIdMap,         \* this.postIdMap: key -> object id
  children,          \* this.container children, top to bottom: Seq of object ids
  lowestSequenceId,  \* this.lowestSequenceId
  scrollTop,         \* this.container.getElement().scrollTop
  published,         \* the RequestHistoricalPosts events the last handler published
  lastOp,            \* history: the handler that ran last
  lastArg,           \* history: the Post addOrUpdatePost was handed, or the
                     \* sequence ids of the list prependPosts was, in the order given
  lastEffect,        \* history: what it did to the index
  repeated,          \* history: it was addOrUpdatePost, handed the same Post twice running
  live,              \* SpecInterleave: live deliveries still to come
  pages,             \* SpecInterleave: historical batches still to come
  series,            \* SpecInterleave: the two series as chosen
  liveHigh,          \* SpecOrder: the highest sequence id delivered live so far
  orderly,           \* SpecOrder: every merge so far kept the delivery protocol
  peer,              \* SpecBus: the PostContainer of the other shard, as a value
  bridge,            \* SpecBus: bits.events.PubSub.bridge_, its subscriptions in order
  xhr,               \* SpecBus: the requests waiting at the connection's xhrManager_
  nextMessageId,     \* SpecBus: the connection's nextMessageId_
  numErrors,         \* SpecBus: the connection's numErrors_
  busLog,            \* SpecBus: history: the publishes of the last step and whom each called
  browserToken,      \* SpecConnect: the connection's browserToken_
  channel,           \* SpecConnect: the connection's channel_ and the userConnected bound to its onopen
  serverSeq,         \* SpecConnect: the highest sequence id the server has filed a post under
  awaitingBackfill,  \* SpecConnect: history: the connection published ConnectionReestablishing
                     \* and has sent no request for the most recent posts since
  staleMerged,       \* SpecConnect: history: since the container was last emptied, an answer
                     \* came in to a request for history sent before that
  notifier,          \* SpecNotifier: the bits.notifier.Notifier of the page, as a value
  heartbeat,         \* SpecConnect: whether login() was called, whether heartbeatTimer_ is
                     \* started, whether eh_ still listens to its TICK
  submitted          \* SpecSubmit: the posts the user submitted, in the order submitted, each
                     \* with the sequence id the server filed it under once it has

vars == <<heap, postIdMap, children, lowestSequenceId, scrollTop, published,
          lastOp, lastArg, lastEffect, repeated, live, pages, series, liveHigh, orderly,
          peer, bridge, xhr, nextMessageId, numErrors, busLog,
          browserToken, channel, serverSeq, awaitingBackfill, staleMerged, notifier, heartbeat, submitted>>

\* the container as a value
Engine ==
  [heap |-> heap, postIdMap |-> postIdMap, children |-> children,
   lowestSequenceId |-> lowestSequenceId, scrollTop |-> scrollTop]

EmptyFcn == [x \in {} |-> 0]

\* new bits.posts.PostContainer(shardId), decorated, nothing scrolled
NewContainer ==
  [heap |-> EmptyFcn, postIdMap |-> EmptyFcn, children |-> <<>>,
   lowestSequenceId |-> Null, scrollTop |-> 0]

\* ------------------------------------------------------- DOM geometry
RECURSIVE SumHeights(_, _)
SumHeights(h, kids) ==
  IF kids = <<>> THEN 0 ELSE RenderedHeight(h[Head(kids)]) + SumHeights(h, Tail(kids))

Max(a, b) == IF a >= b THEN a ELSE b
Min(a, b) == IF a <= b THEN a ELSE b

\* element.scrollHeight: the content's height, never less than clientHeight
scrollHeight(e) == Max(ClientHeight, SumHeights(e.heap, e.children))

\* assigning element.scrollTop: the browser clamps to [0, scrollHeight - clientHeight]
SetScrollTop(e, top) ==
  [e EXCEPT !.scrollTop = Max(0, Min(top, scrollHeight(e) - ClientHeight))]

\* goog.ui.Component.addChildAt(child, index, true) on the container; the
\* index is 0-based and must lie in 0..childCount, else it throws and the
\* children stay as they are
IndexOk(e, index) == index >= 0 /\ index <= Len(e.children)
addChildAt(e, oid, index) ==
  IF IndexOk(e, index)
  THEN [e EXCEPT !.children = SubSeq(e.children, 1, index) \o <<oid>> \o
                              SubSeq(e.children, index + 1, Len(e.children))]
  ELSE e

\* the object id of a Post the container is about to keep: any id no live
\* object has; the model takes the number of the post's key when that is free
KeyNumber(key) == IF key = NullStr THEN 0 ELSE IF key = "a" THEN 1 ELSE 2
FirstFree(h, n) == CHOOSE o \in n..(n + Cardinality(DOMAIN h)) : o \notin DOMAIN h
NewOid(e, post) ==
  IF KeyNumber(post.postId) \notin DOMAIN e.heap
  THEN KeyNumber(post.postId)
  ELSE FirstFree(e.heap, 3)

\* goog.structs.Map.set(key, oid) together with keeping the object alive
MapSet(e, post, oid) ==
  [e EXCEPT !.heap = (oid :> post) @@ e.heap,
            !.postIdMap = (post.postId :> oid) @@ e.postIdMap]

\* goog.structs.Map.containsKey
containsKey(e, key) == key \in DOMAIN e.postIdMap

\* goog.structs.Map.getCount
getCount(e) == Cardinality(DOMAIN e.postIdMap)

\* ---------------------------------------------------- addOrUpdatePost
\* no object: what goog.structs.Map.get answers for a key it does not hold
NoPost == -1

\* mutant of get: the lookup misses every key
getMisses(e, post) == NoPost

\* this.postIdMap.get(post.postId)
get(e, post) == IF containsKey(e, post.postId) THEN e.postIdMap[post.postId] ELSE NoPost

\* mutant of ScrollAtBottom: every new post scrolls the container down
ScrollAtBottomAlways(e) == TRUE

\* scrollHeight == scrollTop + clientHeight
ScrollAtBottom(e) == scrollHeight(e) = e.scrollTop + ClientHeight

\* post.sequenceId && this.lowestSequenceId && post.sequenceId < this.lowestSequenceId
IsOldest(e, post) ==
  Truthy(post.sequenceId) /\ Truthy(e.lowestSequenceId) /\
  post.sequenceId < e.lowestSequenceId

\* mutant of ShouldAssignSequence: the negation is lost
ShouldAssignSequenceNegationLost(found, post) ==
  Truthy(found.sequenceId) /\ Truthy(post.sequenceId)

\* mutant of ShouldAssignSequence: the kept Post's own sequenceId is not looked at
ShouldAssignSequenceAlways(found, post) == Truthy(post.sequenceId)

\* !foundPost.sequenceId && post.sequenceId
ShouldAssignSequence(found, post) == ~Truthy(found.sequenceId) /\ Truthy(post.sequenceId)

\* mutant of AppendIndex: the child goes on top
AppendIndexFront(e) == 0

\* the index addOrUpdatePost adds the child at, the map already holding the post
AppendIndex(e) == getCount(e) - 1

addOrUpdatePost(e, post) ==
  LET scrollAtBottom == ScrollAtBottom(e)
      e1 == IF IsOldest(e, post)
            THEN [e EXCEPT !.lowestSequenceId = post.sequenceId]
            ELSE e
      foundPost == get(e1, post)
  IN IF foundPost # NoPost
     THEN IF ShouldAssignSequence(e1.heap[foundPost], post)
          THEN [e1 EXCEPT !.heap[foundPost].sequenceId = post.sequenceId]
          ELSE e1
     ELSE LET oid == NewOid(e1, post)
              e2 == MapSet(e1, post, oid)
              index == AppendIndex(e2)
          IN IF ~IndexOk(e2, index)
             THEN e2
             ELSE LET e3 == addChildAt(e2, oid, index)
                  IN IF scrollAtBottom
                     THEN SetScrollTop(e3, scrollHeight(e3) - ClientHeight)
                     ELSE e3

\* handlePostReceived
handlePostReceived(e, postMap) == addOrUpdatePost(e, Post(postMap))

\* ------------------------------------------------------- prependPosts
\* the orders goog.array.sort may leave the list in under the comparator
\* b.sequenceId - a.sequenceId (Array.prototype.sort need not be stable)
Perms(n) == {p \in [1..n -> 1..n] : \A i, j \in 1..n : i # j => p[i] # p[j]}

\* mutant of Compare: the operands are swapped
CompareSwapped(a, b) == Num(a.sequenceId) - Num(b.sequenceId)

\* the comparator: negative when a is to come before b
Compare(a, b) == Num(b.sequenceId) - Num(a.sequenceId)

SortDescending(postList) ==
  {[i \in 1..Len(postList) |-> postList[p[i]]] : p \in
     {q \in Perms(Len(postList)) :
        \A i, j \in 1..Len(postList) :
          i < j => Compare(postList[q[i]], postList[q[j]]) <= 0}}

\* mutant of PrependOne: the containsKey test is missing
PrependOneUnchecked(e, post) ==
  LET oid == NewOid(e, post)
      e1 == MapSet(e, post, oid)
      e2 == addChildAt(e1, oid, 0)
  IN SetScrollTop(e2, e2.scrollTop + (scrollHeight(e2) - scrollHeight(e1)))

\* mutant of PrependOne: a post already indexed is moved to the top
PrependOneMovesKnown(e, post) ==
  LET known == containsKey(e, post.postId)
      oid == IF known THEN e.postIdMap[post.postId] ELSE NewOid(e, post)
      e1 == IF known
            THEN [e EXCEPT !.children = SelectSeq(e.children, LAMBDA o : o # oid)]
            ELSE MapSet(e, post, oid)
      e2 == addChildAt(e1, oid, 0)
  IN SetScrollTop(e2, e2.scrollTop + (scrollHeight(e2) - scrollHeight(e1)))

\* mutant of PrependOne: the child is added below the others
PrependOneAtEnd(e, post) ==
  IF ~containsKey(e, post.postId)
  THEN LET oid == NewOid(e, post)
           e1 == MapSet(e, post, oid)
           e2 == addChildAt(e1, oid, Len(e1.children))
       IN SetScrollTop(e2, e2.scrollTop + (scrollHeight(e2) - scrollHeight(e1)))
  ELSE e

\* mutant of PrependOne: a post already indexed takes the sequenceId handed in
PrependOneReconciles(e, post) ==
  IF ~containsKey(e, post.postId)
  THEN LET oid == NewOid(e, post)
           e1 == MapSet(e, post, oid)
           e2 == addChildAt(e1, oid, 0)
       IN SetScrollTop(e2, e2.scrollTop + (scrollHeight(e2) - scrollHeight(e1)))
  ELSE IF ShouldAssignSequence(e.heap[e.postIdMap[post.postId]], post)
       THEN [e EXCEPT !.heap[e.postIdMap[post.postId]].sequenceId = post.sequenceId]
       ELSE e

\* mutant of PrependOne: the scroll position is left as it was
PrependOneScrollKept(e, post) ==
  IF ~containsKey(e, post.postId)
  THEN LET oid == NewOid(e, post)
           e1 == MapSet(e, post, oid)
       IN addChildAt(e1, oid, 0)
  ELSE e

\* one turn of the forEach body
PrependOne(e, post) ==
  IF ~containsKey(e, post.postId)
  THEN LET oid == NewOid(e, post)
           e1 == MapSet(e, post, oid)
           scrollHeightBefore == scrollHeight(e1)
           e2 == addChildAt(e1, oid, 0)
           scrollHeightAfter == scrollHeight(e2)
       IN SetScrollTop(e2, e2.scrollTop + (scrollHeightAfter - scrollHeightBefore))
  ELSE e

RECURSIVE PrependEach(_, _)
RECURSIVE PrependEachRight(_, _)
\* mutant of PrependEach: the list is walked from its end, oldest first
PrependEachRight(e, sorted) ==
  IF sorted = <<>> THEN e
  ELSE PrependEachRight(PrependOne(e, sorted[Len(sorted)]), SubSeq(sorted, 1, Len(sorted) - 1))

\* goog.array.forEach over the sorted list
PrependEach(e, sorted) ==
  IF sorted = <<>> THEN e ELSE PrependEach(PrependOne(e, Head(sorted)), Tail(sorted))

\* mutant of PrependSorted: the marker is taken from the head of the list
PrependSortedNewest(e, sorted) ==
  IF Len(sorted) = 0
  THEN e
  ELSE LET newest == sorted[1].sequenceId
           e1 == IF e.lowestSequenceId = Null \/ Num(newest) < Num(e.lowestSequenceId)
                 THEN [e EXCEPT !.lowestSequenceId = newest]
                 ELSE e
       IN PrependEach(e1, sorted)

\* mutant of PrependSorted: the empty list is not returned on, and the marker
\* is taken from a post the list does not hold
PrependSortedUnguarded(e, sorted) ==
  IF Len(sorted) = 0
  THEN [e EXCEPT !.lowestSequenceId = Null]
  ELSE LET oldest == sorted[Len(sorted)].sequenceId
           e1 == IF e.lowestSequenceId = Null \/ Num(oldest) < Num(e.lowestSequenceId)
                 THEN [e EXCEPT !.lowestSequenceId = oldest]
                 ELSE e
       IN PrependEach(e1, sorted)

\* the indices of postList that prependPosts reads: none when it returns at
\* once, else postList[postList.length - 1] and every element of the forEach
Dereferenced(postList) ==
  IF Len(postList) = 0 THEN {} ELSE {Len(postList)} \cup (1..Len(postList))

\* prependPosts once the list is sorted
PrependSorted(e, sorted) ==
  IF Len(sorted) = 0
  THEN e
  ELSE LET oldest == sorted[Len(sorted)].sequenceId
           e1 == IF e.lowestSequenceId = Null \/ Num(oldest) < Num(e.lowestSequenceId)
                 THEN [e EXCEPT !.lowestSequenceId = oldest]
                 ELSE e
       IN PrependEach(e1, sorted)

\* every container prependPosts(postList) may produce
prependPosts(e, postList) == {PrependSorted(e, s) : s \in SortDescending(postList)}

\* handleHistoricalPostsReceived builds the Post list
PostList(postMapList) == [i \in 1..Len(postMapList) |-> Post(postMapList[i])]

\* ---------------------------------------------- handleReestablishing_
\* mutant of handleReestablishing: the children are not removed
handleReestablishingKeepsChildren(e) ==
  [e EXCEPT !.postIdMap = EmptyFcn]

\* postIdMap.clear() and container.removeChildren(true); the browser clamps
\* the scrollTop of the emptied element
handleReestablishing(e) ==
  SetScrollTop([e EXCEPT !.heap = EmptyFcn, !.postIdMap = EmptyFcn, !.children = <<>>],
               e.scrollTop)

\* ------------------------------------------------------- handleScroll_
\* mutant of handleScroll: the request always asks for the most recent posts
handleScrollEndZero(e) ==
  IF scrollHeight(e) < ClientHeight THEN <<>>
  ELSE IF e.scrollTop > 0 THEN <<>>
  ELSE <<[start |-> 0, end |-> 0]>>

\* what handleScroll_ publishes: nothing, or RequestHistoricalPosts(0, end)
handleScroll(e) ==
  IF scrollHeight(e) < ClientHeight THEN <<>>
  ELSE IF e.scrollTop > 0 THEN <<>>
  ELSE <<[start |-> 0, end |-> IF Truthy(e.lowestSequenceId) THEN e.lowestSequenceId ELSE 0]>>

\* mutant of handleScrollLeaves: the handler forgets the marker it sent
handleScrollLeavesMarkerUnset(e) ==
  IF handleScroll(e) = <<>> THEN e ELSE [e EXCEPT !.lowestSequenceId = Null]

\* the container handleScroll_ leaves: the handler assigns to no field
handleScrollLeaves(e) == e

\* the SCROLL events that follow a handler that left the container e2 where
\* it found e: when the scrollTop moved, by an assignment or by the browser
\* clamping it, the browser may dispatch one, and handleScroll_ runs on it;
\* the set holds what may be published
ScrollEvents(e, e2) ==
  IF e2.scrollTop = e.scrollTop THEN {<<>>} ELSE {<<>>, handleScroll(e2)}

\* ----------------------------------------- Connection.requestOldPosts_
\* the count requestOldPosts_ asks for when it is given none
DefaultCount == 100

\* x || 0 of requestOldPosts_
OrZero(x) == IF Truthy(x) THEN x ELSE 0

\* the parameters requestOldPosts_(opt_start, opt_end, opt_count) sends to
\* /rpc/list_posts; an argument left out is undefined
requestOldPosts(opt_start, opt_end, opt_count) ==
  [start |-> OrZero(opt_start),
   end |-> OrZero(opt_end),
   count |-> IF Truthy(opt_count) THEN opt_count ELSE DefaultCount]

\* the lists of at most n elements of S
Lists(S, n) == UNION {[1..k -> S] : k \in 0..n}

\* the Posts addOrUpdatePost can be handed
Posts == {Post(pm) : pm \in PostMaps}

\* the visible posts, top to bottom
Visible(e) == [i \in 1..Len(e.children) |-> e.heap[e.children[i]]]

TypeOK ==
  /\ \A o \in DOMAIN heap : heap[o] \in Posts
  /\ scrollTop \in 0..(scrollHeight(Engine) - ClientHeight)
  /\ lowestSequenceId \in {Null} \cup SeqIds

\* ------------------------------------------------------------ actions
\* what a handler did to the index, read off the container before and after
Effect(e, e2) ==
  IF getCount(e2) > getCount(e) THEN "inserted"
  ELSE IF getCount(e2) < getCount(e) THEN "cleared"
  ELSE IF e2.heap # e.heap THEN "updated"
  ELSE "none"

\* the keys a Post list would add to the index
NewKeys(e, postList) ==
  {postList[i].postId : i \in 1..Len(postList)} \ DOMAIN e.postIdMap

Become(e2) ==
  /\ heap' = e2.heap
  /\ postIdMap' = e2.postIdMap
  /\ children' = e2.children
  /\ lowestSequenceId' = e2.lowestSequenceId
  /\ scrollTop' = e2.scrollTop

Record(op, arg, e2, pub) ==
  /\ lastOp' = op
  /\ lastArg' = IF op = "addOrUpdatePost" THEN arg
                ELSE [i \in 1..Len(arg) |-> arg[i].sequenceId]
  /\ lastEffect' = Effect(Engine, e2)
  /\ repeated' = (op = "addOrUpdatePost" /\ lastOp = op /\ lastArg = arg)
  /\ published' = pub

\* PostReceived, SubmittedPostSent, SubmittedPostReceived, RosterReceived,
\* ServerError, SystemInfo: all subscribed to handlePostReceived
PostReceived(postMap) ==
  /\ containsKey(Engine, Post(postMap).postId) \/ Len(children) < MaxPosts
  /\ \E e2 \in {handlePostReceived(Engine, postMap)} :
       /\ Become(e2)
       /\ \E pub \in ScrollEvents(Engine, e2) :
            Record("addOrUpdatePost", <<Post(postMap)>>, e2, pub)

\* HistoricalPostsReceived
HistoricalPostsReceived(postMapList) ==
  /\ Len(children) + Cardinality(NewKeys(Engine, PostList(postMapList))) <= MaxPosts
  /\ \E e2 \in prependPosts(Engine, PostList(postMapList)) :
       /\ Become(e2)
       /\ \E pub \in ScrollEvents(Engine, e2) :
            Record("prependPosts", PostList(postMapList), e2, pub)

\* ConnectionReestablishing
ConnectionReestablishing ==
  \E e2 \in {handleReestablishing(Engine)} :
    /\ Become(e2)
    /\ \E pub \in ScrollEvents(Engine, e2) :
         Record("handleReestablishing_", <<>>, e2, pub)

\* the user drags the scrollbar; the SCROLL event runs handleScroll_
Scroll(top) ==
  /\ top # scrollTop
  /\ \E e2 \in {SetScrollTop(Engine, top)} :
       /\ Become(handleScrollLeaves(e2))
       /\ Record("handleScroll_", <<>>, handleScrollLeaves(e2), handleScroll(e2))

InitContainer ==
  /\ heap = NewContainer.heap
  /\ postIdMap = NewContainer.postIdMap
  /\ children = NewContainer.children
  /\ lowestSequenceId = NewContainer.lowestSequenceId
  /\ scrollTop = NewContainer.scrollTop
  /\ published = <<>>
  /\ lastOp = "constructor"
  /\ lastArg = <<>>
  /\ lastEffect = "none"
  /\ repeated = FALSE

\* ----------------------------------------------------------- Notifier
\* bits.notifier.Notifier.FLASH_PERIOD_NORMAL
FLASH_PERIOD_NORMAL == 2000
\* bits.notifier.Notifier.FLASH_PERIOD_INVERTED
FLASH_PERIOD_INVERTED == 1000

\* the count of sentPosts_ above which handlePostReceived_ clears the set
SentPostsLimit == 1000

\* bits.posts.ArchiveType, as far as the notifier tells its members apart
ArchiveTypes == {"chat", "info"}

\* the post maps the notifier is handed
NotifierPostMaps == [postId : PostIds, archiveType : ArchiveTypes]

\* new bits.notifier.Notifier(shardId): the fields it sets, the favicon it
\* found, its timer; the post ids of sentPosts_ that the model follows are
\* kept as a set and the other ids, each a fresh uuid, are counted; for the
\* history, the post maps SubmittedPostSent ever announced and the post the
\* last start of the timer was for
Notifier ==
  [active |-> TRUE, flashing |-> FALSE, href |-> "normal",
   enabled |-> FALSE, interval |-> FLASH_PERIOD_INVERTED,
   sentPosts |-> {}, sentOthers |-> 0,
   everSent |-> {}, startedFor |-> NullStr]

\* Notifier.setFlashing_(flashing)
setFlashing(n, flashing) ==
  [n EXCEPT !.href = IF flashing THEN "flash" ELSE "normal", !.flashing = flashing]

\* sentPosts_.getCount()
SentCount(n) == Cardinality(n.sentPosts) + n.sentOthers

\* Notifier.handlePostSent_(postMap); fresh says the post id is one the
\* model does not follow
handlePostSent(n, postMap, fresh) ==
  LET n1 == IF fresh THEN n ELSE [n EXCEPT !.everSent = @ \cup {postMap}]
  IN IF postMap.archiveType # "chat" THEN n1
     ELSE IF fresh THEN [n1 EXCEPT !.sentOthers = @ + 1]
     ELSE [n1 EXCEPT !.sentPosts = @ \cup {postMap.postId}]

\* the three early returns of handlePostReceived_
NotifierIgnores(n, postMap) ==
  \/ n.active
  \/ postMap.archiveType # "chat"
  \/ n.enabled

\* Notifier.handlePostReceived_(postMap)
notifierPostReceived(n, postMap) ==
  IF NotifierIgnores(n, postMap) THEN n
  ELSE IF postMap.postId \in n.sentPosts
  THEN IF SentCount(n) > SentPostsLimit
       THEN [n EXCEPT !.sentPosts = {}, !.sentOthers = 0]
       ELSE n
  ELSE [setFlashing(n, TRUE) EXCEPT !.enabled = TRUE, !.startedFor = postMap.postId]

\* Notifier.handleWindowFocus_(focused)
handleWindowFocus(n, focused) ==
  LET n1 == [n EXCEPT !.active = focused]
  IN IF n1.active /\ n1.enabled
     THEN setFlashing([n1 EXCEPT !.enabled = FALSE], FALSE)
     ELSE n1

\* Notifier.handleTimer_(e): goog.Timer.setInterval restarts a running timer
handleTimer(n) ==
  setFlashing([n EXCEPT !.interval = IF n.flashing THEN FLASH_PERIOD_NORMAL
                                     ELSE FLASH_PERIOD_INVERTED],
              ~n.flashing)

\* the bus and the connection before anything is constructed
busvars == <<peer, bridge, xhr, nextMessageId, numErrors, busLog,
             browserToken, channel, serverSeq, awaitingBackfill, staleMerged, notifier, heartbeat, submitted>>

\* new goog.Timer(60000), listened to and not started; login() not yet called
NoHeartbeat == [loggedIn |-> FALSE, enabled |-> FALSE, listening |-> TRUE]

\* this.channel_ = null
NoChannel == [state |-> "none", connected |-> FALSE]

InitNoConnect ==
  /\ browserToken = NullStr
  /\ channel = NoChannel
  /\ serverSeq = 0
  /\ awaitingBackfill = FALSE
  /\ staleMerged = FALSE
  /\ notifier = Notifier
  /\ heartbeat = NoHeartbeat
  /\ submitted = <<>>

InitNoBus ==
  /\ peer = NewContainer
  /\ bridge = <<>>
  /\ xhr = {}
  /\ nextMessageId = 0
  /\ numErrors = 0
  /\ busLog = <<>>
  /\ InitNoConnect

Init ==
  /\ InitContainer
  /\ live = <<>>
  /\ pages = <<>>
  /\ series = <<>>
  /\ liveHigh = Null
  /\ orderly = TRUE
  /\ InitNoBus

aux == <<live, pages, series, liveHigh, orderly, peer, bridge, xhr, nextMessageId, numErrors, busLog,
         browserToken, channel, serverSeq, awaitingBackfill, staleMerged, notifier, heartbeat, submitted>>

Next ==
  \/ \E postMap \in PostMaps : PostReceived(postMap) /\ UNCHANGED aux
  \/ \E postMapList \in Lists(HistoricalPostMaps, MaxBatch) :
       HistoricalPostsReceived(postMapList) /\ UNCHANGED aux
  \/ ConnectionReestablishing /\ UNCHANGED aux
  \/ \E top \in 0..(scrollHeight(Engine) - ClientHeight) : Scroll(top) /\ UNCHANGED aux

Spec == Init /\ [][Next]_vars

\* ------------------------------------------------- SpecInterleave
\* One series of live deliveries and one series of historical batches,
\* chosen at the start, delivered in any interleaving that keeps the order
\* of each.
LivePostMaps == [postId : PostIds, sequenceId : {Null} \cup SeqIds]
PagePostMaps == [postId : PostIds, sequenceId : SeqIds]
Batches == Lists(PagePostMaps, MaxBatch) \ {<<>>}

\* the history the other specifications keep: the handler only
RecordOp(op, e2) ==
  /\ lastOp' = op
  /\ lastArg' = <<>>
  /\ lastEffect' = Effect(Engine, e2)
  /\ repeated' = FALSE
  /\ published' = <<>>

InitInterleave ==
  /\ InitContainer
  /\ series \in [live : Lists(LivePostMaps, MaxLive), pages : Lists(Batches, MaxPages)]
  /\ live = series.live
  /\ pages = series.pages
  /\ liveHigh = Null
  /\ orderly = TRUE
  /\ InitNoBus

DeliverLive ==
  /\ live # <<>>
  /\ \E e2 \in {handlePostReceived(Engine, Head(live))} :
       Become(e2) /\ RecordOp("addOrUpdatePost", e2)
  /\ live' = Tail(live)
  /\ UNCHANGED <<pages, series, liveHigh, orderly>>
  /\ UNCHANGED busvars

DeliverPage ==
  /\ pages # <<>>
  /\ \E e2 \in prependPosts(Engine, PostList(Head(pages))) :
       Become(e2) /\ RecordOp("prependPosts", e2)
  /\ pages' = Tail(pages)
  /\ UNCHANGED <<live, series, liveHigh, orderly>>
  /\ UNCHANGED busvars

NextInterleave == DeliverLive \/ DeliverPage

SpecInterleave == InitInterleave /\ [][NextInterleave]_vars

\* what the claim compares: the visible posts and the contents of the index
Outcome(e) ==
  [visible |-> Visible(e),
   index |-> [k \in DOMAIN e.postIdMap |-> e.heap[e.postIdMap[k]]]]

\* the containers a series of deliveries can leave, from a set of containers
RECURSIVE RunLive(_, _)
RunLive(E, postMaps) ==
  IF postMaps = <<>> THEN E
  ELSE RunLive({handlePostReceived(e, Head(postMaps)) : e \in E}, Tail(postMaps))

RECURSIVE RunPages(_, _)
RunPages(E, batches) ==
  IF batches = <<>> THEN E
  ELSE RunPages(UNION {prependPosts(e, PostList(Head(batches))) : e \in E}, Tail(batches))

\* the outcomes of the interleaving that delivers every batch, then every live post
PagesFirstOutcomes(sr) ==
  {Outcome(e) : e \in RunLive(RunPages({NewContainer}, sr.pages), sr.live)}

\* no postId is delivered both live and in a historical batch
DisjointSeries(sr) ==
  \A i \in 1..Len(sr.live) : \A j \in 1..Len(sr.pages) : \A k \in 1..Len(sr.pages[j]) :
    sr.live[i].postId # sr.pages[j][k].postId

Delivered == live = <<>> /\ pages = <<>>

\* ------------------------------------------------------ SpecOrder
\* The container under live deliveries whose sequence ids ascend.
\* a live post that keeps the protocol: it carries a sequenceId, and is
\* either indexed already or no older than any post in the view
ProtocolLive(e, post) ==
  /\ post.sequenceId # Null
  /\ \/ containsKey(e, post.postId)
     \/ \A o \in DOMAIN e.heap : Num(e.heap[o].sequenceId) <= post.sequenceId

\* a batch that keeps the protocol: its posts carry sequenceIds, none
\* newer than any post in the view
ProtocolPage(e, postList) ==
  \A i \in 1..Len(postList) :
    /\ postList[i].sequenceId # Null
    /\ \A o \in DOMAIN e.heap :
         e.heap[o].sequenceId # Null /\ postList[i].sequenceId <= e.heap[o].sequenceId

OrderedPostReceived(postMap) ==
  /\ containsKey(Engine, Post(postMap).postId) \/ Len(children) < MaxPosts
  /\ Post(postMap).sequenceId # Null => Post(postMap).sequenceId >= Num(liveHigh)
  /\ \E e2 \in {handlePostReceived(Engine, postMap)} :
       Become(e2) /\ RecordOp("addOrUpdatePost", e2)
  /\ liveHigh' = IF Post(postMap).sequenceId # Null THEN Post(postMap).sequenceId ELSE liveHigh
  /\ orderly' = (orderly /\ ProtocolLive(Engine, Post(postMap)))
  /\ UNCHANGED <<live, pages, series>>
  /\ UNCHANGED busvars

OrderedHistoricalPostsReceived(postMapList) ==
  /\ Len(children) + Cardinality(NewKeys(Engine, PostList(postMapList))) <= MaxPosts
  /\ \E e2 \in prependPosts(Engine, PostList(postMapList)) :
       Become(e2) /\ RecordOp("prependPosts", e2)
  /\ orderly' = (orderly /\ ProtocolPage(Engine, PostList(postMapList)))
  /\ UNCHANGED <<live, pages, series, liveHigh>>
  /\ UNCHANGED busvars

OrderedReestablishing ==
  /\ \E e2 \in {handleReestablishing(Engine)} :
       Become(e2) /\ RecordOp("handleReestablishing_", e2)
  /\ orderly' = TRUE
  /\ UNCHANGED <<live, pages, series, liveHigh>>
  /\ UNCHANGED busvars

NextOrder ==
  \/ \E postMap \in PostMaps : OrderedPostReceived(postMap)
  \/ \E postMapList \in Lists(HistoricalPostMaps, MaxBatch) :
       OrderedHistoricalPostsReceived(postMapList)
  \/ OrderedReestablishing

SpecOrder == Init /\ [][NextOrder]_vars

\* the visible posts that carry a sequenceId are in ascending order of it
SequencedAscending(e) ==
  \A i, j \in 1..Len(e.children) :
    (/\ i < j
     /\ e.heap[e.children[i]].sequenceId # Null
     /\ e.heap[e.children[j]].sequenceId # Null)
    => e.heap[e.children[i]].sequenceId <= e.heap[e.children[j]].sequenceId

\* ---------------------------------------------------------- SpecBus
\* Two shards on one page: the container of each, the event bus they share
\* and the connection of the first.
Shard == "r"
PeerShard == "r-x"
ShardIds == {Shard, PeerShard}

\* bits.events.EventType
EventType ==
  {"SubmitPost", "SubmittedPostSent", "PostReceived", "SubmitPresenceChange",
   "ServerError", "SystemInfo", "ShowSettingsDialog", "ShowShortUrlDialog",
   "RequestRoster", "RosterReceived", "RequestHistoricalPosts",
   "HistoricalPostsReceived", "ConnectionReestablishing", "SubmitLink", "SubmitTopic"}

\* mutant of getRealTopic: the shard is left out of the topic
getRealTopicShardless(shardId, eventType) == eventType

\* bits.events.PubSub.getRealTopic_
getRealTopic(shardId, eventType) == shardId \o "-" \o eventType

\* the event types the page names that bits.events.EventType lacks: reading
\* such a member off the enum gives undefined
MissingEventTypes == {"SubmittedPostReceived"}

\* mutant of IsEventType: every event type passes
IsEventTypeAlways(eventType) == TRUE

\* goog.object.containsKey(bits.events.EventType, eventType), for the event
\* types the page passes: the values of the enum, and undefined
IsEventType(eventType) == eventType \in EventType

\* bits.events.PubSub.subscribe on the subscriptions b
subscribe(b, shardId, eventType, fn, context) ==
  IF ~IsEventType(eventType)
  THEN b
  ELSE Append(b, [topic |-> getRealTopic(shardId, eventType), fn |-> fn, context |-> context])

\* the subscriptions bits.events.PubSub.publish calls, in order
Subscribers(b, shardId, eventType) ==
  IF ~IsEventType(eventType)
  THEN <<>>
  ELSE SelectSeq(b, LAMBDA sub : sub.topic = getRealTopic(shardId, eventType))

\* mutant of clear: the subscriptions are kept
clearKeeps(b) == b

\* bits.events.PubSub.clear
clear(b) == <<>>

RECURSIVE SubscribeAll(_, _, _, _)
SubscribeAll(b, shardId, list, context) ==
  IF list = <<>> THEN b
  ELSE SubscribeAll(subscribe(b, shardId, Head(list)[1], Head(list)[2], context),
                    shardId, Tail(list), context)

\* the subscriptions of PostContainer.enterDocument, in order
ContainerSubscriptions ==
  << <<"PostReceived", "handlePostReceived">>,
     <<"HistoricalPostsReceived", "handleHistoricalPostsReceived">>,
     <<"SubmittedPostSent", "handlePostReceived">>,
     <<"SubmittedPostReceived", "handlePostReceived">>,
     <<"RosterReceived", "handlePostReceived">>,
     <<"ServerError", "handlePostReceived">>,
     <<"SystemInfo", "handlePostReceived">>,
     <<"ConnectionReestablishing", "handleReestablishing_">> >>

\* the subscriptions of the Connection constructor, in order
ConnectionSubscriptions ==
  << <<"SubmitPost", "handleSubmitPost_">>,
     <<"SubmitPresenceChange", "handleSubmitPresenceChange_">>,
     <<"RequestRoster", "requestRoster_">>,
     <<"RequestHistoricalPosts", "requestOldPosts_">> >>

\* PostContainer.enterDocument of the container of a shard
enterDocument(b, shardId) ==
  SubscribeAll(b, shardId, ContainerSubscriptions,
               [kind |-> "PostContainer", shardId |-> shardId])

\* new bits.connection.Connection(shardId, nickname)
Connection(b, shardId) ==
  SubscribeAll(b, shardId, ConnectionSubscriptions,
               [kind |-> "Connection", shardId |-> shardId])

\* the page as a value: both containers, the bus, the connection of Shard,
\* what the step under way has published and called so far, and, for the
\* history, the sequence ids of the message it was given, in their order
World ==
  [r |-> Engine, peer |-> peer, bridge |-> bridge, xhr |-> xhr,
   nextMessageId |-> nextMessageId, numErrors |-> numErrors,
   browserToken |-> browserToken, channel |-> channel, serverSeq |-> serverSeq,
   awaitingBackfill |-> awaitingBackfill, staleMerged |-> staleMerged,
   heartbeat |-> heartbeat, submitted |-> submitted,
   log |-> <<>>, published |-> <<>>, given |-> <<>>]

Container(w, shardId) == IF shardId = Shard THEN w.r ELSE w.peer
SetContainer(w, shardId, e) ==
  IF shardId = Shard THEN [w EXCEPT !.r = e] ELSE [w EXCEPT !.peer = e]

\* Connection.getNextMessageId_ and xhrManager_.send(id, url, ...)
\* the server reads the request off its store as the store is when the
\* request is sent (sentAt); the answer may take any time to come back
send(w, url, params) ==
  [w EXCEPT !.xhr = @ \cup {[id |-> w.nextMessageId, url |-> url, start |-> params.start,
                             end |-> params.end, count |-> params.count,
                             sentAt |-> w.serverSeq, stale |-> FALSE, post |-> NullStr]},
            !.nextMessageId = @ + 1,
            !.awaitingBackfill = @ /\ ~(url = "/rpc/list_posts" /\ params.start = 0 /\ params.end = 0)]

\* history: the requests for history that wait while the container of
\* Shard is emptied are marked
MarkStale(w) ==
  [w EXCEPT !.xhr = {IF req.url = "/rpc/list_posts" THEN [req EXCEPT !.stale = TRUE] ELSE req :
                       req \in w.xhr},
            !.staleMerged = FALSE]

\* the parameters of /rpc/show_roster hold the shard only
RosterParams == [start |-> Null, end |-> Null, count |-> Null]

\* bits.connection.Connection.uuidCompact(): an id no post has yet; the
\* first post the user submits is called a, the second b
uuidCompact(w) ==
  IF \A i \in 1..Len(w.submitted) : w.submitted[i].postId # "a" THEN "a" ELSE "b"

\* xhrManager_.send(getNextMessageId_(), '/rpc/post', ...) with post_id
sendPost(w, postId) ==
  [w EXCEPT !.xhr = @ \cup {[id |-> w.nextMessageId, url |-> "/rpc/post", start |-> Null,
                             end |-> Null, count |-> Null,
                             sentAt |-> w.serverSeq, stale |-> FALSE, post |-> postId]},
            !.nextMessageId = @ + 1,
            !.submitted = Append(@, [postId |-> postId, sequenceId |-> Null])]

RECURSIVE publish(_, _, _, _)

\* Connection.handleSubmitPost_(postMap): the post map gets its postId,
\* goes to the server and is published as SubmittedPostSent
handleSubmitPost(w, postMap) ==
  LET sent == [postMap EXCEPT !.postId = uuidCompact(w)]
  IN publish(sendPost(w, sent.postId), Shard, "SubmittedPostSent", sent)

\* the call of one subscriber: the worlds it may leave
Invoke(w, sub, arg) ==
  LET w1 == [w EXCEPT !.log[Len(w.log)].calls =
                         Append(@, [fn |-> sub.fn, context |-> sub.context])]
      c == sub.context.shardId
  IN CASE sub.fn = "handlePostReceived" ->
            {SetContainer(w1, c, handlePostReceived(Container(w1, c), arg))}
       [] sub.fn = "handleHistoricalPostsReceived" ->
            {SetContainer(w1, c, e2) : e2 \in prependPosts(Container(w1, c), PostList(arg))}
       [] sub.fn = "handleReestablishing_" ->
            {SetContainer(IF c = Shard THEN MarkStale(w1) ELSE w1, c,
                          handleReestablishing(Container(w1, c)))}
       [] sub.fn = "requestOldPosts_" ->
            {send(w1, "/rpc/list_posts", requestOldPosts(arg.start, arg.end, Null))}
       [] sub.fn = "requestRoster_" ->
            {send(w1, "/rpc/show_roster", RosterParams)}
       [] sub.fn = "handleSubmitPost_" ->
            handleSubmitPost(w1, arg)

RECURSIVE DeliverAll(_, _, _)
DeliverAll(W, subs, arg) ==
  IF subs = <<>> THEN W
  ELSE DeliverAll(UNION {Invoke(w, Head(subs), arg) : w \in W}, Tail(subs), arg)

\* bits.events.PubSub.publish(shardId, eventType, arg): an event type that
\* EventType does not hold is logged and calls nobody; otherwise every
\* subscriber of the topic is called, in the order of subscription
publish(w, shardId, eventType, arg) ==
  IF ~IsEventType(eventType)
  THEN {[w EXCEPT !.log = Append(@, [shardId |-> shardId, eventType |-> eventType,
                                     arg |-> arg, subscribed |-> w.bridge # <<>>,
                                     calls |-> <<>>])]}
  ELSE LET w1 == [w EXCEPT !.log = Append(@, [shardId |-> shardId, eventType |-> eventType,
                                              arg |-> arg, subscribed |-> w.bridge # <<>>,
                                              calls |-> <<>>]),
                           !.published = IF eventType = "RequestHistoricalPosts"
                                         THEN Append(@, arg) ELSE @]
       IN DeliverAll({w1}, Subscribers(w.bridge, shardId, eventType), arg)

\* handleScroll_ of the container of Shard publishing what it has to
PublishRequests(w, requests) ==
  IF requests = <<>> THEN {w}
  ELSE publish(w, Shard, "RequestHistoricalPosts", requests[1])

\* the SCROLL events that follow a step that moved the scrollTop of the
\* container of Shard
AfterScroll(w0, W) ==
  UNION {UNION {PublishRequests(w2, requests) : requests \in ScrollEvents(w0.r, w2.r)} : w2 \in W}

\* the number of errors reportError_ lets pass
MaxErrors == 5

\* the body of the post of a fatal error: the message and the link to reload
FatalBody == "message<br>Fatal error: <a>Click here to reload</a>"

\* mutant of Fatal: the error that reaches the limit is fatal already
FatalAtLimit(n, opt_ignorable) == n >= MaxErrors \/ ~opt_ignorable

\* var fatal = this.numErrors_ > 5 || !opt_ignorable
Fatal(n, opt_ignorable) == n > MaxErrors \/ ~opt_ignorable

\* Connection.reportError_(message, opt_ignorable): the worlds it may leave,
\* each with the value it returns
reportError(w, opt_ignorable) ==
  LET n == w.numErrors + 1
      fatal == Fatal(n, opt_ignorable)
      postMap == [postId |-> "system-error-" \o ToString(w.nextMessageId),
                  sequenceId |-> Null,
                  body |-> IF fatal THEN FatalBody ELSE "message"]
      w1 == [w EXCEPT !.numErrors = n, !.nextMessageId = @ + 1]
  IN {[w |-> IF fatal
             THEN [w2 EXCEPT !.heartbeat.listening = FALSE, !.bridge = clear(w2.bridge)]
             ELSE w2,
       retry |-> ~fatal] : w2 \in publish(w1, Shard, "ServerError", postMap)}

\* Connection.handleChannelOpen_(userConnected)
handleChannelOpen(w, userConnected) ==
  IF userConnected
  THEN send(send(w, "/rpc/list_posts", requestOldPosts(Null, Null, Null)),
            "/rpc/show_roster", RosterParams)
  ELSE w

\* Connection.handleRequestHistoricalPostsSuccessful_(start, end, count, event)
\* on the answer to the request req
handleRequestHistoricalPostsSuccessful(w, req, isSuccess, posts) ==
  LET w1 == [w EXCEPT !.xhr = @ \ {req}]
  IN IF ~isSuccess
     THEN {x.w : x \in reportError(w1, TRUE)}
     ELSE publish([w1 EXCEPT !.staleMerged = @ \/ req.stale],
                  Shard, "HistoricalPostsReceived", posts)

\* Connection.handleRequestRosterSuccessful_(event) on the answer to req
handleRequestRosterSuccessful(w, req, isSuccess) ==
  LET w1 == [w EXCEPT !.xhr = @ \ {req}]
  IN IF ~isSuccess
     THEN {IF x.retry THEN send(x.w, "/rpc/show_roster", RosterParams) ELSE x.w :
             x \in reportError(w1, TRUE)}
     ELSE LET postMap == [postId |-> "system-message-" \o ToString(w1.nextMessageId),
                          sequenceId |-> Null]
          IN publish([w1 EXCEPT !.nextMessageId = @ + 1], Shard, "RosterReceived", postMap)

\* Connection.handleSubmitPostSuccessful_(postMap, event) on the answer to req
handleSubmitPostSuccessful(w, req, isSuccess) ==
  LET w1 == [w EXCEPT !.xhr = @ \ {req}]
  IN IF ~isSuccess
     THEN {x.w : x \in reportError(w1, TRUE)}
     ELSE publish(w1, Shard, "SubmittedPostReceived",
                  [postId |-> req.post, sequenceId |-> Null])

\* Connection.allocateChannel_(connected): a new channel, opening, with
\* connected bound to its onopen
allocateChannel(w, connected) ==
  [w EXCEPT !.channel = [state |-> "opening", connected |-> connected]]

\* Connection.handleChannelError_(event)
handleChannelError(w) ==
  {IF x.retry THEN allocateChannel(x.w, FALSE) ELSE x.w : x \in reportError(w, TRUE)}

\* the post events other parts of the page publish, each with the post
\* map it carries: a post just submitted has no sequenceId yet, a post the
\* channel delivers has one
BusPosts ==
  {<<"SubmittedPostSent", [postId |-> "a", sequenceId |-> Null]>>,
   <<"SubmittedPostReceived", [postId |-> "a", sequenceId |-> Null]>>,
   <<"PostReceived", [postId |-> "a", sequenceId |-> 1]>>,
   <<"RosterReceived", [postId |-> "system-message-0", sequenceId |-> Null]>>}
\* the batches of history the server answers with
BusBatches == {<<[postId |-> "b", sequenceId |-> 1]>>}

BecomeWorld(op, w2) ==
  /\ Become(w2.r)
  /\ peer' = w2.peer
  /\ bridge' = w2.bridge
  /\ xhr' = w2.xhr
  /\ nextMessageId' = w2.nextMessageId
  /\ numErrors' = w2.numErrors
  /\ busLog' = w2.log
  /\ browserToken' = w2.browserToken
  /\ channel' = w2.channel
  /\ serverSeq' = w2.serverSeq
  /\ awaitingBackfill' = w2.awaitingBackfill
  /\ staleMerged' = w2.staleMerged
  /\ heartbeat' = w2.heartbeat
  /\ submitted' = w2.submitted
  /\ published' = w2.published
  /\ lastOp' = op
  /\ lastArg' = w2.given
  /\ lastEffect' = Effect(Engine, w2.r)
  /\ repeated' = FALSE
  /\ UNCHANGED <<live, pages, series, liveHigh, orderly, notifier>>

\* the page once startup has run for both shards: the connection of Shard
\* constructed, both containers in the document
InitBus ==
  /\ InitContainer
  /\ live = <<>>
  /\ pages = <<>>
  /\ series = <<>>
  /\ liveHigh = Null
  /\ orderly = TRUE
  /\ peer = NewContainer
  /\ bridge = enterDocument(enterDocument(Connection(<<>>, Shard), Shard), PeerShard)
  /\ xhr = {}
  /\ nextMessageId = 0
  /\ numErrors = 0
  /\ busLog = <<>>
  /\ InitNoConnect

\* room for one more post in the container of a shard
BusRoom(shardId, postMap) ==
  \/ containsKey(Container(World, shardId), Post(postMap).postId)
  \/ Len(Container(World, shardId).children) < MaxBusPosts

\* some part of the page publishes a post event on a shard
BusPublishPost(shardId, eventType, postMap) ==
  /\ BusRoom(shardId, postMap)
  /\ \E w2 \in publish(World, shardId, eventType, postMap) :
       BecomeWorld("publish", w2)

\* HistoricalPostsReceived is published on a shard
BusPublishHistorical(shardId, postMapList) ==
  /\ \A i \in 1..Len(postMapList) : BusRoom(shardId, postMapList[i])
  /\ \E w2 \in publish(World, shardId, "HistoricalPostsReceived", postMapList) :
       BecomeWorld("publish", w2)

\* ConnectionReestablishing is published on a shard
BusPublishReestablishing(shardId) ==
  \E w2 \in publish(World, shardId, "ConnectionReestablishing", <<>>) :
    BecomeWorld("publish", w2)

\* the channel reports an error
ChannelError ==
  /\ nextMessageId < MaxMessageId
  /\ \E w2 \in handleChannelError(World) :
       BecomeWorld("handleChannelError_", w2)

\* the page while the browser dispatches no SCROLL event and no request
\* is answered
NextBus ==
  \/ \E shardId \in ShardIds, post \in BusPosts : BusPublishPost(shardId, post[1], post[2])
  \/ \E shardId \in ShardIds, postMapList \in BusBatches :
       BusPublishHistorical(shardId, postMapList)
  \/ \E shardId \in ShardIds : BusPublishReestablishing(shardId)
  \/ ChannelError

SpecBus == InitBus /\ [][NextBus]_vars

\* ----------------------------------------------------- SpecBackfill
\* The container of one shard and its connection: the requests for
\* history, sent and answered.
\* the user scrolls the container of Shard
BackfillScroll(top) ==
  /\ top # scrollTop
  /\ Cardinality(xhr) < MaxOutstanding
  /\ nextMessageId < MaxRequestId
  /\ \E e2 \in {SetScrollTop(Engine, top)} :
       \E w2 \in PublishRequests([World EXCEPT !.r = handleScrollLeaves(e2)], handleScroll(e2)) :
         BecomeWorld("handleScroll_", w2)

\* the channel of the connection opens
ChannelOpen(userConnected) ==
  /\ Cardinality(xhr) + 1 < MaxOutstanding
  /\ nextMessageId + 1 < MaxRequestId
  /\ \E w2 \in {handleChannelOpen(World, userConnected)} :
       BecomeWorld("handleChannelOpen_", w2)

\* the answer to a /rpc/list_posts request arrives
HistoricalPostsResponse(req, isSuccess, posts) ==
  /\ req.url = "/rpc/list_posts"
  /\ \E w2 \in AfterScroll(World, handleRequestHistoricalPostsSuccessful(World, req, isSuccess, posts)) :
       BecomeWorld("handleRequestHistoricalPostsSuccessful_", w2)

\* the answer to a /rpc/show_roster request arrives
RosterResponse(req, isSuccess) ==
  /\ req.url = "/rpc/show_roster"
  /\ \E w2 \in AfterScroll(World, handleRequestRosterSuccessful(World, req, isSuccess)) :
       BecomeWorld("handleRequestRosterSuccessful_", w2)

\* a post arrives on the channel of the shard
BackfillPostReceived(postMap) ==
  /\ BusRoom(Shard, postMap)
  /\ \E w2 \in AfterScroll(World, publish(World, Shard, "PostReceived", postMap)) :
       BecomeWorld("publish", w2)

NextBackfill ==
  \/ \E postMap \in {post[2] : post \in {p \in BusPosts : p[1] = "PostReceived"}} :
       BackfillPostReceived(postMap)
  \/ \E top \in 0..(scrollHeight(Engine) - ClientHeight) : BackfillScroll(top)
  \/ \E userConnected \in BOOLEAN : ChannelOpen(userConnected)
  \/ \E req \in xhr, isSuccess \in BOOLEAN, posts \in BusBatches :
       HistoricalPostsResponse(req, isSuccess, posts)
  \/ \E req \in xhr, isSuccess \in BOOLEAN : RosterResponse(req, isSuccess)

SpecBackfill == InitBus /\ [][NextBackfill]_vars

\* ------------------------------------------------------- SpecConnect
\* The connection of one shard, its presence requests and its channel,
\* against a server that files posts under ascending sequence ids, pushes
\* them on the open channel and answers requests for history from its store.
\* the posts the server files, in the order it files them
ServerLog == <<[postId |-> "a", sequenceId |-> 1], [postId |-> "b", sequenceId |-> 2]>>

\* the browser tokens the server issues
Tokens == {"t1", "t2"}

\* /rpc/list_posts as RequestHistoricalPosts describes it: start and end
\* inclusive, both zero for the most recent posts; newest first
ListPosts(req) ==
  LET hit(post) == /\ post.sequenceId <= req.sentAt
                   /\ post.sequenceId >= req.start
                   /\ (req.end = 0 \/ post.sequenceId <= req.end)
      asc == SelectSeq(ServerLog, hit)
  IN [i \in 1..Len(asc) |-> asc[Len(asc) + 1 - i]]

\* Connection.setPresence_
setPresence(w) == send(w, "/rpc/presence", RosterParams)

\* if (firstRequest) publish(ConnectionReestablishing)
PublishReestablishing(w, firstRequest) ==
  IF firstRequest
  THEN {[w2 EXCEPT !.awaitingBackfill = TRUE] :
          w2 \in publish(w, Shard, "ConnectionReestablishing", <<>>)}
  ELSE {w}

\* Connection.handleSetPresenceComplete_(event) on the answer to req
handleSetPresenceComplete(w, req, isSuccess, response) ==
  LET w1 == [w EXCEPT !.xhr = @ \ {req}]
      firstRequest == w1.browserToken = NullStr \/ response.userConnected
  IN IF ~isSuccess
     THEN {IF x.retry THEN setPresence(x.w) ELSE x.w : x \in reportError(w1, TRUE)}
     ELSE {[(IF w2.browserToken # response.browserToken \/ firstRequest
             THEN allocateChannel([w2 EXCEPT !.channel = NoChannel,
                                             !.browserToken = response.browserToken],
                                  firstRequest)
             ELSE w2) EXCEPT !.numErrors = 0, !.heartbeat.enabled = TRUE] :
             w2 \in PublishReestablishing(w1, firstRequest)}

\* the orders goog.array.sort may leave the posts of a message in under the
\* comparator a.sequenceId - b.sequenceId
SortAscending(postList) ==
  {[i \in 1..Len(postList) |-> postList[p[i]]] : p \in
     {q \in Perms(Len(postList)) :
        \A i, j \in 1..Len(postList) :
          i < j => Num(postList[q[i]].sequenceId) - Num(postList[q[j]].sequenceId) <= 0}}

\* mutant of SortedMessage: the posts are published in the order of the message
SortedMessageAsGiven(postList) == {postList}

\* the posts of a message as handleChannelMessage_ walks them
SortedMessage(postList) == SortAscending(postList)

RECURSIVE PublishEach(_, _)
\* goog.array.forEach publishing PostReceived for each post map
PublishEach(W, postList) ==
  IF postList = <<>> THEN W
  ELSE PublishEach(UNION {publish(w, Shard, "PostReceived", Head(postList)) : w \in W},
                   Tail(postList))

\* Connection.handleChannelMessage_(event) for a message that holds posts
handleChannelMessage(w, postList) ==
  UNION {PublishEach({w}, sorted) : sorted \in SortedMessage(postList)}

\* the page once startup has run: the connection constructed, the
\* container in the document, login() not yet called
InitConnect == InitBus

\* Connection.login()
login(w) == setPresence([w EXCEPT !.heartbeat.loggedIn = TRUE])

\* Connection.handleHeartbeat_()
handleHeartbeat(w) == setPresence(w)

\* startup calls login(), once
Login ==
  /\ ~heartbeat.loggedIn
  /\ BecomeWorld("login", login(World))

\* TICK of the started heartbeatTimer_ while eh_ listens to it; the model
\* lets the timer tick once the last presence request is answered
Heartbeat ==
  /\ heartbeat.enabled /\ heartbeat.listening
  /\ nextMessageId < MaxConnectId
  /\ \A req \in xhr : req.url # "/rpc/presence"
  /\ BecomeWorld("handleHeartbeat_", handleHeartbeat(World))

\* the answer to a /rpc/presence request arrives
PresenceResponse(req, isSuccess, response) ==
  /\ req.url = "/rpc/presence"
  /\ nextMessageId < MaxConnectId
  /\ \E w2 \in AfterScroll(World, handleSetPresenceComplete(World, req, isSuccess, response)) :
       BecomeWorld("handleSetPresenceComplete_", w2)

\* the channel opens
ConnectChannelOpen ==
  /\ channel.state = "opening"
  /\ nextMessageId + 1 < MaxConnectId
  /\ BecomeWorld("handleChannelOpen_",
                 handleChannelOpen([World EXCEPT !.channel.state = "open"], channel.connected))

\* the channel reports an error, opening or open
ConnectChannelError ==
  /\ channel.state # "none"
  /\ nextMessageId < MaxConnectId
  /\ \E w2 \in AfterScroll(World, handleChannelError(World)) :
       BecomeWorld("handleChannelError_", w2)

\* the server files n more posts; it pushes them in one message, in any
\* order, when the channel is open, and to nobody when it is not
ServerPush(n) ==
  /\ serverSeq + n <= Len(ServerLog)
  /\ LET w1 == [World EXCEPT !.serverSeq = @ + n]
         filed == SubSeq(ServerLog, serverSeq + 1, serverSeq + n)
     IN IF channel.state = "open"
        THEN \E p \in Perms(n) :
               \E w2 \in AfterScroll(World, handleChannelMessage(w1, [i \in 1..n |-> filed[p[i]]])) :
                 BecomeWorld("handleChannelMessage_",
                             [w2 EXCEPT !.given = [i \in 1..n |-> filed[p[i]].sequenceId]])
        ELSE BecomeWorld("server", w1)

\* the answer to a /rpc/list_posts request arrives with what the server read
ConnectHistoricalPostsResponse(req, isSuccess) ==
  /\ nextMessageId < MaxConnectId
  /\ HistoricalPostsResponse(req, isSuccess, ListPosts(req))

NextConnect ==
  \/ Login
  \/ Heartbeat
  \/ \E req \in xhr, isSuccess \in BOOLEAN, userConnected \in BOOLEAN, token \in Tokens :
       PresenceResponse(req, isSuccess, [userConnected |-> userConnected, browserToken |-> token])
  \/ ConnectChannelOpen
  \/ ConnectChannelError
  \/ \E n \in 1..Len(ServerLog) : ServerPush(n)
  \/ \E req \in xhr, isSuccess \in BOOLEAN : ConnectHistoricalPostsResponse(req, isSuccess)
  \/ \E req \in xhr, isSuccess \in BOOLEAN :
       nextMessageId < MaxConnectId /\ RosterResponse(req, isSuccess)

SpecConnect == InitConnect /\ [][NextConnect]_vars

\* --------------------------------------------------------- SpecRetry
\* The connection of one shard against a server that files no post: its
\* presence, roster and history requests failing and succeeding, its channel
\* failing, up to the fatal error and past it.
\* TICK of the started heartbeatTimer_ while eh_ listens to it; the model
\* lets the timer tick while errors are counted
RetryHeartbeat ==
  /\ heartbeat.enabled /\ heartbeat.listening
  /\ numErrors > 0
  /\ nextMessageId < MaxRetryId
  /\ \A req \in xhr : req.url # "/rpc/presence"
  /\ BecomeWorld("handleHeartbeat_", handleHeartbeat(World))

\* the answer to a /rpc/presence request arrives
RetryPresenceResponse(req, isSuccess, response) ==
  /\ req.url = "/rpc/presence"
  /\ nextMessageId < MaxRetryId
  /\ \E w2 \in AfterScroll(World, handleSetPresenceComplete(World, req, isSuccess, response)) :
       BecomeWorld("handleSetPresenceComplete_", w2)

\* the channel opens
RetryChannelOpen ==
  /\ channel.state = "opening"
  /\ nextMessageId < MaxRetryId
  /\ BecomeWorld("handleChannelOpen_",
                 handleChannelOpen([World EXCEPT !.channel.state = "open"], channel.connected))

\* the channel reports an error, opening or open
RetryChannelError ==
  /\ channel.state # "none"
  /\ nextMessageId < MaxRetryId
  /\ \E w2 \in AfterScroll(World, handleChannelError(World)) :
       BecomeWorld("handleChannelError_", w2)

\* the answer to a /rpc/list_posts request arrives
RetryHistoricalPostsResponse(req, isSuccess) ==
  /\ nextMessageId < MaxRetryId
  /\ HistoricalPostsResponse(req, isSuccess, ListPosts(req))

\* the answer to a /rpc/show_roster request arrives
RetryRosterResponse(req, isSuccess) ==
  /\ nextMessageId < MaxRetryId
  /\ RosterResponse(req, isSuccess)

NextRetry ==
  \/ Login
  \/ RetryHeartbeat
  \/ \E req \in xhr, isSuccess \in BOOLEAN, userConnected \in BOOLEAN :
       RetryPresenceResponse(req, isSuccess,
                             [userConnected |-> userConnected, browserToken |-> "t1"])
  \/ RetryChannelOpen
  \/ RetryChannelError
  \/ \E req \in xhr, isSuccess \in BOOLEAN : RetryHistoricalPostsResponse(req, isSuccess)
  \/ \E req \in xhr, isSuccess \in BOOLEAN : RetryRosterResponse(req, isSuccess)

SpecRetry == InitConnect /\ [][NextRetry]_vars

\* -------------------------------------------------------- SpecSubmit
\* The posts the user submits: the chat box publishes SubmitPost, the
\* connection sends the post and publishes SubmittedPostSent, the server
\* files the post under the next sequence id, answers the request and
\* echoes the post over the channel; the connection reconnects now and
\* then and pages of history come in.  No SCROLL event is dispatched.
\* ChatBox.onKey_ on ENTER: the post map has no postId and no sequenceId
SubmitPost ==
  /\ Len(submitted) < Cardinality(PostIds)
  /\ \E w2 \in publish(World, Shard, "SubmitPost", [postId |-> NoId, sequenceId |-> Null]) :
       BecomeWorld("SubmitPost", w2)

\* the posts the user submitted that the server has filed
Filed == SelectSeq(submitted, LAMBDA post : post.sequenceId # Null)

\* the server files the post of a request that waits, under the next sequence id
ServerFiles(req) ==
  /\ req \in xhr /\ req.url = "/rpc/post"
  /\ serverSeq < MaxSeq
  /\ \E i \in 1..Len(submitted) :
       /\ submitted[i].postId = req.post
       /\ submitted[i].sequenceId = Null
       /\ BecomeWorld("server", [World EXCEPT !.serverSeq = @ + 1,
                                              !.submitted[i].sequenceId = serverSeq + 1])

\* the answer to /rpc/post comes in: a success once the server has filed the post
SubmitResponse(req, isSuccess) ==
  /\ req \in xhr /\ req.url = "/rpc/post"
  /\ isSuccess => \E i \in 1..Len(Filed) : Filed[i].postId = req.post
  /\ \E w2 \in handleSubmitPostSuccessful(World, req, isSuccess) :
       BecomeWorld("handleSubmitPostSuccessful_", w2)

\* the channel delivers a post the server has filed
SubmitEcho(postMap) ==
  /\ \E i \in 1..Len(Filed) : Filed[i] = postMap
  /\ \E w2 \in handleChannelMessage(World, <<postMap>>) :
       BecomeWorld("handleChannelMessage_", [w2 EXCEPT !.given = <<postMap.sequenceId>>])

\* a page of history comes in: the posts the server has filed, newest first
SubmitHistorical ==
  /\ Filed # <<>>
  /\ \E w2 \in publish(World, Shard, "HistoricalPostsReceived",
                        [i \in 1..Len(Filed) |->
                           CHOOSE post \in {Filed[j] : j \in 1..Len(Filed)} :
                             Cardinality({j \in 1..Len(Filed) :
                                            Filed[j].sequenceId > post.sequenceId}) = i - 1]) :
       BecomeWorld("publish", w2)

NextSubmit ==
  \/ SubmitPost
  \/ \E req \in xhr : ServerFiles(req)
  \/ \E req \in xhr, isSuccess \in BOOLEAN : SubmitResponse(req, isSuccess)
  \/ \E postMap \in PostMaps : SubmitEcho(postMap)
  \/ SubmitHistorical
  \/ BusPublishReestablishing(Shard)

SpecSubmit == InitBus /\ [][NextSubmit]_vars

\* ------------------------------------------------------ SpecNotifier
\* The notifier of one shard: the posts the user sends, the posts the
\* channel delivers, the window gaining and losing the focus, the flash timer.
\* everything but the notifier stays as startup left it
NotifierFrame ==
  UNCHANGED <<heap, postIdMap, children, lowestSequenceId, scrollTop, published,
              lastArg, lastEffect, repeated, live, pages, series, liveHigh, orderly,
              peer, bridge, xhr, nextMessageId, numErrors, busLog,
              browserToken, channel, serverSeq, awaitingBackfill, staleMerged, heartbeat, submitted>>

\* SubmittedPostSent for a post the model follows by its id
NotifierPostSent(postMap) ==
  /\ \A sent \in notifier.everSent : sent.postId # postMap.postId
  /\ notifier' = handlePostSent(notifier, postMap, FALSE)
  /\ lastOp' = "handlePostSent_"
  /\ NotifierFrame

\* SubmittedPostSent for a chat post with an id of its own
NotifierOtherPostSent ==
  /\ notifier.sentOthers < MaxSent
  /\ notifier' = handlePostSent(notifier, [postId |-> "a", archiveType |-> "chat"], TRUE)
  /\ lastOp' = "handlePostSent_"
  /\ NotifierFrame

\* PostReceived: the server hands a post on with the archive type it was
\* sent under
NotifierPostReceived(postMap) ==
  /\ \A sent \in notifier.everSent :
       sent.postId = postMap.postId => sent.archiveType = postMap.archiveType
  /\ notifier' = notifierPostReceived(notifier, postMap)
  /\ lastOp' = "handlePostReceived_"
  /\ NotifierFrame

\* FOCUS and BLUR of the window
WindowFocus(focused) ==
  /\ notifier' = handleWindowFocus(notifier, focused)
  /\ lastOp' = "handleWindowFocus_"
  /\ NotifierFrame

\* TICK of the flash timer, which a stopped timer does not dispatch
TimerTick ==
  /\ notifier.enabled
  /\ notifier' = handleTimer(notifier)
  /\ lastOp' = "handleTimer_"
  /\ NotifierFrame

NextNotifier ==
  \/ \E postMap \in NotifierPostMaps : NotifierPostSent(postMap)
  \/ NotifierOtherPostSent
  \/ \E postMap \in NotifierPostMaps : NotifierPostReceived(postMap)
  \/ \E focused \in BOOLEAN : WindowFocus(focused)
  \/ TimerTick

SpecNotifier == InitBus /\ [][NextNotifier]_vars

\* ------------------------------------------------------------- claims
\* whether the sequence ids of a Post list are pairwise distinct
DistinctSequenceIds(postList) ==
  \A i, j \in 1..Len(postList) : i # j => postList[i].sequenceId # postList[j].sequenceId

\* whether the post ids of a Post list are pairwise distinct
DistinctPostIds(postList) ==
  \A i, j \in 1..Len(postList) : i # j => postList[i].postId # postList[j].postId

\* a Post list in ascending sequence id order (an absent id counting as 0)
Ascending(postList) ==
  \A i, j \in 1..Len(postList) :
    i < j => Num(postList[i].sequenceId) <= Num(postList[j].sequenceId)

\* the ascending arrangement of a Post list of pairwise distinct sequence ids
SortedAscending(postList) ==
  CHOOSE s \in {[i \in 1..Len(postList) |-> postList[p[i]]] : p \in Perms(Len(postList))} :
    Ascending(s)

\* C1: no postId occurs twice among the visible posts, and the index holds
\* exactly one Post per postId: every key leads to a live Post of that
\* postId and no two keys lead to the same Post.
C1_UniquePostIds ==
  /\ \A i, j \in 1..Len(children) :
       i # j => heap[children[i]].postId # heap[children[j]].postId
  /\ \A k \in DOMAIN postIdMap :
       postIdMap[k] \in DOMAIN heap /\ heap[postIdMap[k]].postId = k
  /\ \A k1, k2 \in DOMAIN postIdMap : k1 # k2 => postIdMap[k1] # postIdMap[k2]

\* C1 witness: a second delivery of an indexed postId was dropped, in a
\* container of several posts.
C1_Witness ==
  /\ lastOp = "addOrUpdatePost"
  /\ lastEffect = "none"
  /\ containsKey(Engine, lastArg[1].postId)
  /\ Len(children) >= 2

\* C2: in every state and for every post P, a second addOrUpdatePost(P)
\* right after the first leaves the children and the key set of the index
\* as the first left them; all it may change is an absent sequenceId of a
\* kept Post, which it may fill in with P's.
C2_MergeOneIdempotent ==
  \A post \in Posts :
    LET e1 == addOrUpdatePost(Engine, post)
        e2 == addOrUpdatePost(e1, post)
    IN /\ e2.children = e1.children
       /\ DOMAIN e2.postIdMap = DOMAIN e1.postIdMap
       /\ e2.postIdMap = e1.postIdMap
       /\ e2.lowestSequenceId = e1.lowestSequenceId
       /\ e2.scrollTop = e1.scrollTop
       /\ DOMAIN e2.heap = DOMAIN e1.heap
       /\ \A o \in DOMAIN e1.heap :
            \/ e2.heap[o] = e1.heap[o]
            \/ /\ e1.heap[o].sequenceId = Null
               /\ e2.heap[o] = [e1.heap[o] EXCEPT !.sequenceId = post.sequenceId]

\* C2 witness: addOrUpdatePost ran twice running on the same Post, which
\* is visible once.
C2_Witness ==
  /\ repeated
  /\ lastEffect = "none"
  /\ Cardinality({i \in 1..Len(children) : heap[children[i]].postId = lastArg[1].postId}) = 1

\* C3: when the indexed Post of a postId has no sequenceId and
\* addOrUpdatePost is handed a Post of that postId with a sequenceId s, the
\* indexed Post's sequenceId becomes s: the same object is updated, and
\* neither the index nor the children gain an entry.
C3_SequenceBackfill ==
  \A post \in Posts :
    (/\ containsKey(Engine, post.postId)
     /\ heap[postIdMap[post.postId]].sequenceId = Null
     /\ post.sequenceId # Null)
    => LET e2 == addOrUpdatePost(Engine, post)
       IN /\ e2.postIdMap = postIdMap
          /\ e2.children = children
          /\ DOMAIN e2.heap = DOMAIN heap
          /\ e2.heap[postIdMap[post.postId]].sequenceId = post.sequenceId

\* C3 witness: addOrUpdatePost just gave a kept Post the sequenceId it was handed.
C3_Witness ==
  /\ lastOp = "addOrUpdatePost"
  /\ lastEffect = "updated"
  /\ lastArg[1].sequenceId # Null
  /\ heap[postIdMap[lastArg[1].postId]].sequenceId = lastArg[1].sequenceId

\* C4: a step of addOrUpdatePost or prependPosts never changes the
\* sequenceId of an indexed Post that has one: the Post stays indexed under
\* its key with the sequenceId it had.
C4_SequenceIdSetOnce ==
  [][lastOp' \in {"addOrUpdatePost", "prependPosts"} =>
       \A k \in DOMAIN postIdMap :
         heap[postIdMap[k]].sequenceId # Null =>
           /\ k \in DOMAIN postIdMap'
           /\ postIdMap'[k] = postIdMap[k]
           /\ heap'[postIdMap[k]].sequenceId = heap[postIdMap[k]].sequenceId]_vars

\* C4 witness: an indexed Post with a sequenceId was delivered again with
\* another sequenceId and kept its own.
C4_Witness ==
  /\ lastOp = "addOrUpdatePost"
  /\ lastEffect = "none"
  /\ lastArg[1].sequenceId # Null
  /\ containsKey(Engine, lastArg[1].postId)
  /\ heap[postIdMap[lastArg[1].postId]].sequenceId \notin {Null, lastArg[1].sequenceId}

\* C5: addOrUpdatePost of a Post whose postId is not indexed makes it the
\* last child and leaves the children before it as they were, in their
\* order; on a new container, addOrUpdatePost(A) then addOrUpdatePost(B)
\* with distinct postIds shows <<A, B>>.
C5_AppendOrdering ==
  /\ \A post \in Posts :
       ~containsKey(Engine, post.postId) =>
         Visible(addOrUpdatePost(Engine, post)) = Append(Visible(Engine), post)
  /\ \A A, B \in Posts :
       A.postId # B.postId =>
         Visible(addOrUpdatePost(addOrUpdatePost(NewContainer, A), B)) = <<A, B>>

\* C5 witness: addOrUpdatePost just inserted the Post it was handed below
\* another post.
C5_Witness ==
  /\ lastOp = "addOrUpdatePost"
  /\ lastEffect = "inserted"
  /\ Len(children) >= 2
  /\ heap[children[Len(children)]] = lastArg[1]

\* the Posts whose postId is indexed, and those whose postId is not
IndexedPosts == {post \in Posts : containsKey(Engine, post.postId)}
UnindexedPosts == {post \in Posts : ~containsKey(Engine, post.postId)}

\* C6 as claimed: prependPosts of a list of Posts with pairwise distinct
\* sequenceIds and postIds not indexed, in any order, shows the list in
\* ascending sequenceId order above the posts visible before.
C6_AsClaimed ==
  \A postList \in Lists(UnindexedPosts, MaxBatch) :
    DistinctSequenceIds(postList) =>
      \A e2 \in prependPosts(Engine, postList) :
        Visible(e2) = SortedAscending(postList) \o Visible(Engine)

\* C6: prependPosts of a list of Posts with pairwise distinct sequenceIds
\* and pairwise distinct postIds none of which is indexed, in any order,
\* shows the list in ascending sequenceId order above the posts visible
\* before, which stay as they were.
C6_PrependOrdering ==
  \A postList \in Lists(UnindexedPosts, MaxBatch) :
    (DistinctSequenceIds(postList) /\ DistinctPostIds(postList)) =>
      \A e2 \in prependPosts(Engine, postList) :
        Visible(e2) = SortedAscending(postList) \o Visible(Engine)

\* C6 witness: prependPosts was handed two Posts, the older first, and put
\* both above a post that was visible, the older on top.
C6_Witness ==
  /\ lastOp = "prependPosts"
  /\ lastEffect = "inserted"
  /\ Len(lastArg) = 2
  /\ lastArg[1] < lastArg[2]
  /\ Len(children) = 3
  /\ heap[children[1]].sequenceId = lastArg[1]
  /\ heap[children[2]].sequenceId = lastArg[2]

\* C7: prependPosts of a list all of whose postIds are indexed leaves the
\* visible posts and the index, its keys and its count, as they were.
C7_RedeliveryNoOp ==
  \A postList \in Lists(IndexedPosts, MaxBatch) :
    \A e2 \in prependPosts(Engine, postList) :
      /\ e2.children = children
      /\ Visible(e2) = Visible(Engine)
      /\ e2.postIdMap = postIdMap
      /\ getCount(e2) = getCount(Engine)

\* C7 witness: prependPosts was handed a list of indexed posts only and
\* the index kept its size.
C7_Witness ==
  /\ lastOp = "prependPosts"
  /\ lastEffect = "none"
  /\ Len(lastArg) = 2
  /\ Len(children) >= 2

\* the viewport shows the end of the content: content extent = offset + viewport extent
BottomMost(e) == scrollHeight(e) - e.scrollTop = ClientHeight

\* C10: addOrUpdatePost leaves a container that was scrolled to the
\* bottom scrolled to the bottom, and leaves the scrollTop of a container
\* that was not as it was.
C10_ScrollFollow ==
  \A post \in Posts :
    LET e2 == addOrUpdatePost(Engine, post)
    IN /\ BottomMost(Engine) => BottomMost(e2)
       /\ ~BottomMost(Engine) => e2.scrollTop = scrollTop

\* C10 witness: addOrUpdatePost added a post below the viewport of a
\* container that was scrolled up, and the container is scrolled up still.
C10_Witness ==
  /\ lastOp = "addOrUpdatePost"
  /\ lastEffect = "inserted"
  /\ ~BottomMost(Engine)
  /\ scrollHeight(Engine) - RenderedHeight(lastArg[1]) > scrollTop + ClientHeight

\* C10 witness, the other case: addOrUpdatePost added a post to a
\* container that has a scrollbar and it follows at the bottom.
C10_WitnessFollow ==
  /\ lastOp = "addOrUpdatePost"
  /\ lastEffect = "inserted"
  /\ scrollTop > 0
  /\ BottomMost(Engine)

\* C8 as claimed: once both series are delivered, whatever the
\* interleaving, the visible posts and the index are those the series
\* leave when every batch is delivered first.
C8_AsClaimed ==
  Delivered => Outcome(Engine) \in PagesFirstOutcomes(series)

\* C8: when no postId is delivered both live and in a historical batch,
\* then once both series are delivered, whatever the interleaving, the
\* visible posts and the index are those the series leave when every batch
\* is delivered first.
C8_InterleavingIndependent ==
  (Delivered /\ DisjointSeries(series)) => Outcome(Engine) \in PagesFirstOutcomes(series)

\* C8 witness: a batch was delivered last, after a live post of another
\* postId, and both are visible.
C8_Witness ==
  /\ Delivered
  /\ DisjointSeries(series)
  /\ Len(series.live) >= 1
  /\ lastOp = "prependPosts"
  /\ lastEffect = "inserted"
  /\ Len(children) >= 2

\* C9 as claimed: with live posts delivered in ascending sequenceId order,
\* the visible posts that carry a sequenceId are in ascending order.
C9_AsClaimed == SequencedAscending(Engine)

\* C9: with live posts delivered in ascending sequenceId order, and as long
\* as every post was merged carrying a sequenceId, every live post not yet
\* indexed was no older than any post in the view and every historical
\* batch held no post newer than any post in the view, the visible posts
\* are in ascending sequenceId order.
C9_AscendingUnderProtocol == orderly => SequencedAscending(Engine)

\* C9 witness: after a live post, a batch went on top by the protocol, and
\* the view holds three posts, the top one older than the bottom one.
C9_Witness ==
  /\ orderly
  /\ liveHigh # Null
  /\ lastOp = "prependPosts"
  /\ lastEffect = "inserted"
  /\ Len(children) = 3
  /\ heap[children[1]].sequenceId < heap[children[3]].sequenceId

\* the height of the rendered children, whether or not it fills the viewport
ContentHeight(e) == SumHeights(e.heap, e.children)

C12_ResetEmpties ==
  /\ LET e2 == handleReestablishing(Engine)
     IN getCount(e2) = 0 /\ e2.postIdMap = EmptyFcn /\ e2.children = <<>>
  /\ lastOp = "handleReestablishing_" => (postIdMap = EmptyFcn /\ children = <<>>)

\* C12 witness: handleReestablishing_ just emptied a container that held
\* sequenced posts.
C12_Witness ==
  /\ lastOp = "handleReestablishing_"
  /\ lastEffect = "cleared"
  /\ lowestSequenceId # Null
  /\ children = <<>>
  /\ getCount(Engine) = 0

\* the content is taller than the viewport: there is something to scroll
ContentExceeds(e) == scrollHeight(e) > ClientHeight

\* C13 as claimed: a RequestHistoricalPosts is published only with the
\* scrollTop at 0 and the content taller than the viewport, and a scroll
\* event in such a state publishes one.
C13_AsClaimed ==
  /\ published # <<>> => (scrollTop = 0 /\ ContentExceeds(Engine))
  /\ (lastOp = "handleScroll_" /\ scrollTop = 0 /\ ContentExceeds(Engine)) => published # <<>>

\* what handleScroll_ does: a scroll event publishes a request exactly when
\* the scrollTop is 0 and the scrollHeight is no less than the clientHeight
C13_AsCoded ==
  /\ published # <<>> => (scrollTop = 0 /\ scrollHeight(Engine) >= ClientHeight)
  /\ (lastOp = "handleScroll_" /\ scrollTop = 0) => published # <<>>

\* the request the scroll trigger is to publish from a container
RequestFor(e) ==
  [start |-> 0, end |-> IF e.lowestSequenceId = Null THEN 0 ELSE e.lowestSequenceId]

\* C14: every RequestHistoricalPosts that handleScroll_ publishes carries
\* start 0 and, as end, the lowestSequenceId of the container, or 0 when
\* that is unknown; and the request the connection sends for start 0 and
\* end 0 is the one it sends when called without arguments, for the most
\* recent posts.
C14_RequestRange ==
  /\ \A i \in 1..Len(published) : published[i] = RequestFor(Engine)
  /\ \A i \in 1..Len(handleScroll(Engine)) : handleScroll(Engine)[i] = RequestFor(Engine)
  /\ requestOldPosts(0, 0, Null) = requestOldPosts(Null, Null, Null)
  /\ \A end \in SeqIds :
       /\ requestOldPosts(0, end, Null).start = 0
       /\ requestOldPosts(0, end, Null).end = end

\* C14 witness: a scroll to the top just published a request that ends at
\* the known lowestSequenceId.
C14_Witness ==
  /\ lastOp = "handleScroll_"
  /\ lowestSequenceId # Null
  /\ published = <<[start |-> 0, end |-> lowestSequenceId]>>

\* C14 witness, the other case: a scroll to the top of a container that
\* knows no lowestSequenceId published a request that ends at 0.
C14_WitnessUnknown ==
  /\ lastOp = "handleScroll_"
  /\ lowestSequenceId = Null
  /\ published = <<[start |-> 0, end |-> 0]>>

\* C16 as claimed: addOrUpdatePost of a Post with a sequenceId makes the
\* lowestSequenceId that sequenceId when it was unknown or higher, and
\* leaves it as it was otherwise.
C16_AsClaimed ==
  \A post \in Posts :
    post.sequenceId # Null =>
      addOrUpdatePost(Engine, post).lowestSequenceId =
        IF lowestSequenceId = Null \/ post.sequenceId < lowestSequenceId
        THEN post.sequenceId
        ELSE lowestSequenceId

\* what addOrUpdatePost does: it lowers a lowestSequenceId that is known and leaves
\* an unknown one unknown
C16_AsCoded ==
  \A post \in Posts :
    post.sequenceId # Null =>
      addOrUpdatePost(Engine, post).lowestSequenceId =
        IF lowestSequenceId # Null /\ post.sequenceId < lowestSequenceId
        THEN post.sequenceId
        ELSE lowestSequenceId

\* the Posts that carry a sequenceId
SequencedPosts == {post \in Posts : post.sequenceId # Null}

\* the lowest sequenceId of a non-empty list of sequenced Posts
MinSequenceId(postList) ==
  CHOOSE m \in {postList[i].sequenceId : i \in 1..Len(postList)} :
    \A i \in 1..Len(postList) : m <= postList[i].sequenceId

\* C17: prependPosts of a non-empty list of sequenced Posts makes the
\* lowestSequenceId the lowest sequenceId of the list when it was unknown
\* or higher, and leaves it as it was otherwise, whether or not the posts
\* of the list are indexed.
C17_PageMarker ==
  \A postList \in Lists(SequencedPosts, MaxBatch) \ {<<>>} :
    \A e2 \in prependPosts(Engine, postList) :
      e2.lowestSequenceId =
        IF lowestSequenceId = Null \/ MinSequenceId(postList) < lowestSequenceId
        THEN MinSequenceId(postList)
        ELSE lowestSequenceId

\* C17 witness: prependPosts was handed two posts that were both indexed,
\* and the lowestSequenceId is the lower of their sequenceIds, one that
\* no indexed post carries.
C17_Witness ==
  /\ lastOp = "prependPosts"
  /\ lastEffect = "none"
  /\ Len(lastArg) = 2
  /\ lastArg[1] # lastArg[2]
  /\ lowestSequenceId = Min(lastArg[1], lastArg[2])
  /\ \A o \in DOMAIN heap : heap[o].sequenceId # lowestSequenceId

OutstandingHistory == {req \in xhr : req.url = "/rpc/list_posts"}

\* C15 as claimed: at no moment does more than one request for the
\* history of the shard wait for its answer.
C15_AsClaimed == Cardinality(OutstandingHistory) <= 1

\* how often a publish called a handler of the container of its shard
Handed(entry, fn) ==
  Cardinality({i \in 1..Len(entry.calls) :
                 /\ entry.calls[i].fn = fn
                 /\ entry.calls[i].context = [kind |-> "PostContainer", shardId |-> entry.shardId]})

\* the events the claim has handed to addOrUpdatePost
MergeOneEvents == {"PostReceived", "SubmittedPostSent", "SubmittedPostReceived", "RosterReceived"}

\* C18 as claimed: every publish of PostReceived, SubmittedPostSent,
\* SubmittedPostReceived or RosterReceived on a shard calls the
\* handlePostReceived of the shard's container once, and every publish of
\* HistoricalPostsReceived its handleHistoricalPostsReceived once.
C18_AsClaimed ==
  \A i \in 1..Len(busLog) :
    /\ busLog[i].eventType \in MergeOneEvents => Handed(busLog[i], "handlePostReceived") = 1
    /\ busLog[i].eventType = "HistoricalPostsReceived" =>
         Handed(busLog[i], "handleHistoricalPostsReceived") = 1

\* what the code does for C18: as long as the bus has not been cleared,
\* every publish of an event type that EventType holds among PostReceived,
\* SubmittedPostSent and RosterReceived calls the handlePostReceived of the
\* shard's container once and no other handler of it, every publish of
\* HistoricalPostsReceived calls its handleHistoricalPostsReceived once and
\* no other handler of it, and a publish of SubmittedPostReceived, which
\* EventType does not hold, calls nobody.
C18_AsCoded ==
  \A i \in 1..Len(busLog) :
    /\ busLog[i].eventType \notin EventType => busLog[i].calls = <<>>
    /\ busLog[i].subscribed =>
         /\ busLog[i].eventType \in MergeOneEvents \cap EventType =>
              /\ Handed(busLog[i], "handlePostReceived") = 1
              /\ Handed(busLog[i], "handleHistoricalPostsReceived") = 0
         /\ busLog[i].eventType = "HistoricalPostsReceived" =>
              /\ Handed(busLog[i], "handleHistoricalPostsReceived") = 1
              /\ Handed(busLog[i], "handlePostReceived") = 0

\* the case of C18 that works: a PostReceived published on the first shard
\* was handed to its container once, which gave the post it held its
\* sequenceId.
C18_Delivered ==
  /\ Len(busLog) = 1
  /\ busLog[1].eventType = "PostReceived"
  /\ busLog[1].shardId = Shard
  /\ busLog[1].subscribed
  /\ Handed(busLog[1], "handlePostReceived") = 1
  /\ lastEffect = "updated"

\* shard identifiers to try the topics on, some holding the separator
ShardIdSamples == {Shard, PeerShard, "r-", "r-PostReceived", "-", "5"}

\* no two distinct shard identifiers share a topic, whatever the event types
TopicsApart ==
  \A s1, s2 \in ShardIdSamples : \A t1, t2 \in EventType :
    s1 # s2 => getRealTopic(s1, t1) # getRealTopic(s2, t2)

\* C19: a step that publishes on one shard leaves the container of the
\* other shard as it was, index, children, marker and scrollTop; and no
\* two distinct shard identifiers share a topic, whatever the event types.
C19_ShardScoped ==
  /\ [][\A i \in 1..Len(busLog') :
          /\ busLog'[i].shardId = Shard => peer' = peer
          /\ busLog'[i].shardId = PeerShard => Engine' = Engine]_vars
  /\ []TopicsApart

\* C19 witness: a post event published on the first shard was handed to
\* its container, which now holds a post, while the container of the
\* other shard holds posts of its own.
C19_Witness ==
  /\ Len(busLog) = 1
  /\ busLog[1].shardId = Shard
  /\ Len(busLog[1].calls) = 1
  /\ lastEffect = "inserted"
  /\ peer.children # <<>>
  /\ Visible(peer) # Visible(Engine)

\* the index of e2 holds every key of e under the Post it held, and every
\* Post kept alive is indexed: no set() went to a key the map already held
\* (such a set leaves the Post it replaces behind, alive and out of the index)
NoOverwrite(e, e2) ==
  /\ \A k \in DOMAIN e.postIdMap :
       k \in DOMAIN e2.postIdMap /\ e2.postIdMap[k] = e.postIdMap[k]
  /\ DOMAIN e2.heap = {e2.postIdMap[k] : k \in DOMAIN e2.postIdMap}
  /\ Cardinality(DOMAIN e2.heap) = getCount(e2)

\* C21: in every reachable state, whatever Post addOrUpdatePost is handed
\* and whatever list prependPosts is handed (postIds indexed or not,
\* repeated in the list or not), postIdMap.set is never called for a key
\* the map holds: every key keeps its Post and no Post is left behind out
\* of the index; and the reset leaves no Post behind either.
C21_NoDoubleInsert ==
  /\ \A post \in Posts : NoOverwrite(Engine, addOrUpdatePost(Engine, post))
  /\ \A postMapList \in Lists(HistoricalPostMaps, MaxBatch) :
       \A e2 \in prependPosts(Engine, PostList(postMapList)) : NoOverwrite(Engine, e2)
  /\ NoOverwrite(NewContainer, handleReestablishing(Engine))
  /\ NoOverwrite(NewContainer, Engine)

\* C21 witness: prependPosts was handed a list of two Posts of the same
\* postId on an empty container and inserted the postId once: the second
\* Post met the containsKey test.
C21_Witness ==
  /\ lastOp = "prependPosts"
  /\ lastEffect = "inserted"
  /\ Len(lastArg) = 2
  /\ Len(children) = 1
  /\ getCount(Engine) = 1
  /\ Cardinality(DOMAIN heap) = 1

\* C22: in every reachable state, addOrUpdatePost of a Post whose postId
\* is indexed leaves the children, the index (its keys and the Post under
\* each) and the scrollTop as they were, and with them what a SCROLL event
\* would publish or not; of the kept Posts only the one of that postId may
\* change, and only by its absent sequenceId being set to the one handed
\* in. The marker is free to change.
C22_IndexedFrame ==
  \A post \in IndexedPosts :
    LET e2 == addOrUpdatePost(Engine, post)
        found == postIdMap[post.postId]
    IN /\ e2.children = children
       /\ e2.postIdMap = postIdMap
       /\ e2.scrollTop = scrollTop
       /\ scrollHeight(e2) = scrollHeight(Engine)
       /\ DOMAIN e2.heap = DOMAIN heap
       /\ \A o \in DOMAIN heap \ {found} : e2.heap[o] = heap[o]
       /\ e2.heap[found].postId = heap[found].postId
       /\ \/ e2.heap[found] = heap[found]
          \/ /\ heap[found].sequenceId = Null
             /\ e2.heap[found].sequenceId = post.sequenceId
       /\ ScrollEvents(Engine, e2) = {<<>>}

\* C22 witness: addOrUpdatePost was handed an indexed postId and set the
\* kept Post's sequenceId, in a container of several posts that has a
\* scrollbar and is scrolled to the top, where it stayed.
C22_Witness ==
  /\ lastOp = "addOrUpdatePost"
  /\ lastEffect = "updated"
  /\ Len(children) >= 2
  /\ scrollHeight(Engine) > ClientHeight
  /\ scrollTop = 0
  /\ published = <<>>

\* the children of e2 that e held, in the order e2 shows them
KeptChildren(e, e2) ==
  SelectSeq(e2.children, LAMBDA o : \E i \in 1..Len(e.children) : e.children[i] = o)

\* C23: in every reachable state and for every list prependPosts may be
\* handed, every indexed Post stays indexed under its key with every field
\* it had, and the posts that were visible stay in the order they had; an
\* indexed Post without a sequenceId that the list names with a sequenceId
\* stays without one.
C23_PageLeavesIndexed ==
  \A postMapList \in Lists(HistoricalPostMaps, MaxBatch) :
    \A e2 \in prependPosts(Engine, PostList(postMapList)) :
      /\ \A k \in DOMAIN postIdMap :
           /\ k \in DOMAIN e2.postIdMap
           /\ e2.postIdMap[k] = postIdMap[k]
           /\ e2.heap[postIdMap[k]] = heap[postIdMap[k]]
      /\ KeptChildren(Engine, e2) = children
      /\ \A i \in 1..Len(postMapList) :
           LET post == Post(postMapList[i])
           IN (containsKey(Engine, post.postId) /\
               heap[postIdMap[post.postId]].sequenceId = Null)
              => e2.heap[e2.postIdMap[post.postId]].sequenceId = Null

\* C23 witness: prependPosts was handed a list of two posts, inserted one
\* of them above a visible post that has no sequenceId, and that post, the
\* other of the list, is without a sequenceId still.
C23_Witness ==
  /\ lastOp = "prependPosts"
  /\ lastEffect = "inserted"
  /\ Len(lastArg) = 2
  /\ Len(children) = 2
  /\ heap[children[2]].sequenceId = Null
  /\ heap[children[1]].sequenceId # Null

\* the postIds of the visible posts
VisibleIds(e) == {e.heap[e.children[i]].postId : i \in 1..Len(e.children)}

\* C24: in every reachable state the postIds of the visible posts are the
\* keys of the index, there are as many children as keys, and so for every
\* Post of a postId not indexed the index addOrUpdatePost computes,
\* getCount() - 1 after the set, is the last position of the children: the
\* addChildAt is in range and the Post ends up the last child.
C24_IndexMatchesView ==
  /\ VisibleIds(Engine) = DOMAIN postIdMap
  /\ Len(children) = getCount(Engine)
  /\ \A post \in UnindexedPosts :
       LET e2 == addOrUpdatePost(Engine, post)
       IN /\ getCount(e2) - 1 = Len(children)
          /\ Len(e2.children) = Len(children) + 1
          /\ e2.heap[e2.children[Len(e2.children)]] = post

\* C24 witness: posts came in by both handlers (the marker is known, so a
\* list was prepended); the last, by addOrUpdatePost, went below two others.
C24_Witness ==
  /\ lastOp = "addOrUpdatePost"
  /\ lastEffect = "inserted"
  /\ Len(children) = 3
  /\ getCount(Engine) = 3
  /\ heap[children[3]] = lastArg[1]
  /\ lowestSequenceId # Null

\* the sequenceIds of the indexed Posts that have one
IndexedSequenceIds(e) ==
  {e.heap[e.postIdMap[k]].sequenceId : k \in DOMAIN e.postIdMap} \ {Null}

\* C25 as claimed: in every reachable state in which an indexed Post has a
\* sequenceId, the lowestSequenceId is known and is the lowest sequenceId
\* among the indexed Posts.
C25_AsClaimed ==
  IndexedSequenceIds(Engine) # {} =>
    /\ lowestSequenceId # Null
    /\ lowestSequenceId \in IndexedSequenceIds(Engine)
    /\ \A s \in IndexedSequenceIds(Engine) : lowestSequenceId <= s

\* C26 as claimed: the request a scroll event publishes from a container
\* that handleReestablishing_ has just emptied, no post merged since, ends
\* at 0.
C26_AsClaimed ==
  lastOp = "handleReestablishing_" =>
    \A i \in 1..Len(published) : published[i].end = 0

\* what the code does for C26: handleReestablishing_ leaves the
\* lowestSequenceId as it was, and the request that follows ends at it.
C26_AsCoded ==
  /\ handleReestablishing(Engine).lowestSequenceId = lowestSequenceId
  /\ handleScroll(handleReestablishing(Engine)) =
       <<[start |-> 0, end |-> OrZero(lowestSequenceId)]>>

\* C27: a step of addOrUpdatePost, prependPosts or a scroll event removes
\* no key from the index, keeps the Post under every key, removes no child
\* and keeps the children it found in the order they had; only
\* handleReestablishing_ takes posts away.
C27_GrowsBetweenResets ==
  [][lastOp' # "handleReestablishing_" =>
       /\ \A k \in DOMAIN postIdMap :
            k \in DOMAIN postIdMap' /\ postIdMap'[k] = postIdMap[k]
       /\ \A o \in DOMAIN heap : o \in DOMAIN heap' /\ heap'[o].postId = heap[o].postId
       /\ SelectSeq(children', LAMBDA o : o \in DOMAIN heap) = children]_vars

\* C27 witness: a post came in live and a list of two was prepended above
\* it; the container holds three posts, the live one last.
C27_Witness ==
  /\ lastOp = "prependPosts"
  /\ lastEffect = "inserted"
  /\ Len(lastArg) = 2
  /\ Len(children) = 3
  /\ heap[children[3]].sequenceId = Null
  /\ scrollTop > 0

\* the publishes of a step that come before its i-th
EarlierPublishes(log, i) == {log[j].eventType : j \in 1..(i - 1)}

\* a step in which the connection publishes ConnectionReestablishing sends
\* no request for history before it does, and leaves a channel opening
\* whose onopen is bound to connected = true
ReestablishingFirst ==
  \A i \in 1..Len(busLog') :
    (busLog'[i].eventType = "ConnectionReestablishing" /\ lastOp' = "handleSetPresenceComplete_")
    => /\ "RequestHistoricalPosts" \notin EarlierPublishes(busLog', i)
       /\ channel' = [state |-> "opening", connected |-> TRUE]

\* C28 as claimed: the connection publishes ConnectionReestablishing before
\* it sends the request for history of that connection, and whenever a
\* channel is open after it, a request for the most recent posts (start 0,
\* end 0) has been sent since.
C28_AsClaimed ==
  /\ [][ReestablishingFirst]_vars
  /\ [](channel.state = "open" => ~awaitingBackfill)

\* what the code does for C28: ConnectionReestablishing is published before
\* any request for history of that connection is sent; a channel that opens
\* with connected = true sends a request with start 0 and end 0; and a
\* channel open without such a request is one that handleChannelError_ or
\* a token refresh allocated with connected = false.
C28_AsCoded ==
  /\ [][ReestablishingFirst]_vars
  /\ [][(lastOp' = "handleChannelOpen_" /\ channel.connected) =>
          /\ \E req \in xhr' \ xhr :
               req.url = "/rpc/list_posts" /\ req.start = 0 /\ req.end = 0
          /\ ~awaitingBackfill']_vars
  /\ []((channel.state = "open" /\ awaitingBackfill) => ~channel.connected)

\* C29 as claimed: against a server that files posts under ascending
\* sequence ids, pushes them on the open channel and answers each request
\* for history from its store, the visible posts that carry a sequenceId
\* are in ascending order, whether or not an answer to a request sent
\* before the container was emptied has come in since.
C29_AsClaimed == SequencedAscending(Engine)

\* what the code does for C29: the visible posts are in ascending order as
\* long as no answer to a request sent before the container was last
\* emptied has come in since.
C29_AsCoded == ~staleMerged => SequencedAscending(Engine)

\* the PostReceived publishes of a log, in order
PostReceivedOf(log) == SelectSeq(log, LAMBDA entry : entry.eventType = "PostReceived")

\* every order handleChannelMessage_ may walk a message in is ascending in
\* sequenceId and holds each post of the message as often as the message
\* does, for every message of up to MaxBatch sequenced posts
SortedMessagesAscending ==
  \A postList \in Lists(HistoricalPostMaps, MaxBatch) :
    /\ SortedMessage(postList) # {}
    /\ \A sorted \in SortedMessage(postList) :
         /\ Len(sorted) = Len(postList)
         /\ \A i, j \in 1..Len(sorted) : i < j => sorted[i].sequenceId <= sorted[j].sequenceId
         /\ \A pm \in HistoricalPostMaps :
              Cardinality({i \in 1..Len(sorted) : sorted[i] = pm}) =
              Cardinality({i \in 1..Len(postList) : postList[i] = pm})

\* C30: a step of handleChannelMessage_ publishes one PostReceived for each
\* post of the message, on the shard of the connection, in ascending
\* sequenceId order whatever the order of the message; each reaches
\* handlePostReceived of the container once, and the posts the container
\* gains are its last children, in ascending sequenceId order.
C30_MessageAscending ==
  /\ [][lastOp' = "handleChannelMessage_" =>
       LET pubs == PostReceivedOf(busLog')
           gained == SubSeq(children', Len(children) + 1, Len(children'))
       IN /\ Len(pubs) = Len(lastArg')
          /\ {pubs[i].arg.sequenceId : i \in 1..Len(pubs)} =
               {lastArg'[i] : i \in 1..Len(lastArg')}
          /\ \A i \in 1..Len(pubs) : pubs[i].shardId = Shard
          /\ \A i, j \in 1..Len(pubs) :
               i < j => pubs[i].arg.sequenceId <= pubs[j].arg.sequenceId
          /\ bridge # <<>> =>
               \A i \in 1..Len(pubs) : Handed(pubs[i], "handlePostReceived") = 1
          /\ SubSeq(children', 1, Len(children)) = children
          /\ \A i, j \in 1..Len(gained) :
               i < j => heap'[gained[i]].sequenceId <= heap'[gained[j]].sequenceId]_vars
  /\ []SortedMessagesAscending

\* C30 witness: a message that held two posts, the newer first, was
\* published oldest first, and the container shows the two in ascending
\* order.
C30_Witness ==
  /\ lastOp = "handleChannelMessage_"
  /\ lastArg = <<2, 1>>
  /\ Len(PostReceivedOf(busLog)) = 2
  /\ PostReceivedOf(busLog)[1].arg.sequenceId = 1
  /\ PostReceivedOf(busLog)[2].arg.sequenceId = 2
  /\ Len(children) >= 2
  /\ heap[children[Len(children) - 1]].sequenceId = 1
  /\ heap[children[Len(children)]].sequenceId = 2

\* C37: prependPosts of an empty list does nothing: the index, the children,
\* the marker and the scroll position stay as they are, no SCROLL event
\* follows, nothing is published, and no element of the list is read.
C37_EmptyPageNoOp ==
  /\ [](/\ prependPosts(Engine, PostList(<<>>)) = {Engine}
        /\ Dereferenced(PostList(<<>>)) = {})
  /\ [][(lastOp' = "prependPosts" /\ lastArg' = <<>>)
          => /\ UNCHANGED <<heap, postIdMap, children, lowestSequenceId, scrollTop>>
             /\ published' = <<>>
             /\ lastEffect' = "none"]_vars

\* an empty batch was delivered to a container that shows posts, knows its
\* marker and is scrolled down
C37_Witness ==
  /\ lastOp = "prependPosts"
  /\ lastArg = <<>>
  /\ children # <<>>
  /\ lowestSequenceId # Null
  /\ scrollTop > 0

\* a step in which the flash timer is started
FlashStarts == ~notifier.enabled /\ notifier'.enabled

\* C38, as claimed: while the window is active the flash timer is stopped
\* and the favicon is the normal one; the timer is started only by
\* handlePostReceived_, on a chat post the user did not send, while the
\* window is inactive; and the window gaining the focus stops it.
C38_AsClaimed ==
  /\ [](notifier.active =>
         ~notifier.enabled /\ ~notifier.flashing /\ notifier.href = "normal")
  /\ [][FlashStarts =>
          /\ lastOp' = "handlePostReceived_"
          /\ ~notifier.active
          /\ \A sent \in notifier.everSent : sent.postId # notifier'.startedFor]_vars
  /\ [][(lastOp' = "handleWindowFocus_" /\ notifier'.active) => ~notifier'.enabled]_vars

\* C38, as coded: the same, but the post the timer is started for is a chat
\* post that sentPosts_ does not hold, and a post the user sent stays in
\* sentPosts_ only until the set is cleared, which handlePostReceived_ does
\* when it is handed one of the user's posts and the set holds more than
\* SentPostsLimit
C38_AsCoded ==
  /\ [](notifier.active =>
         ~notifier.enabled /\ ~notifier.flashing /\ notifier.href = "normal")
  /\ [](~notifier.enabled => ~notifier.flashing /\ notifier.href = "normal")
  /\ [][FlashStarts =>
          /\ lastOp' = "handlePostReceived_"
          /\ ~notifier.active
          /\ notifier'.startedFor \notin notifier.sentPosts
          /\ notifier'.flashing /\ notifier'.href = "flash"]_vars
  /\ [][(\E id \in notifier.sentPosts : id \notin notifier'.sentPosts) =>
          /\ lastOp' = "handlePostReceived_"
          /\ SentCount(notifier) > SentPostsLimit
          /\ notifier'.sentPosts = {} /\ notifier'.sentOthers = 0]_vars
  /\ [][(lastOp' = "handleWindowFocus_" /\ notifier'.active) => ~notifier'.enabled]_vars

\* the post maps that lack a postId
NoIdPostMaps == {pm \in PostMaps : pm.postId = NoId}

\* the children of a container that carry the absent identity
AbsentChildren(e) ==
  {i \in 1..Len(e.children) : e.heap[e.children[i]].postId \notin PostIds}

\* C32: a post map without postId is taken as it is and its Post is filed
\* under the absent identity (the key null): of two distinct post maps
\* without postId handed to addOrUpdatePost one after the other, starting
\* from a container that holds no such post, the first becomes a child, at
\* the bottom, and the second finds it in the index and adds no child; a
\* container never shows more than one post of the absent identity.
C32_AbsentIdentityShared ==
  /\ Cardinality(AbsentChildren(Engine)) <= 1
  /\ \A first, second \in NoIdPostMaps :
       first # second =>
         LET e1 == handlePostReceived(Engine, first)
             e2 == handlePostReceived(e1, second)
         IN /\ containsKey(e1, NullStr)
            /\ Cardinality(AbsentChildren(e1)) = 1
            /\ ~containsKey(Engine, NullStr) =>
                 /\ e1.children = Append(children, e1.postIdMap[NullStr])
                 /\ e1.heap[e1.postIdMap[NullStr]] = Post(first)
                 /\ DOMAIN e1.postIdMap = DOMAIN postIdMap \cup {NullStr}
            /\ e2.children = e1.children
            /\ e2.postIdMap = e1.postIdMap
            /\ e2.scrollTop = e1.scrollTop
            /\ \A o \in DOMAIN e1.heap :
                 o # e1.postIdMap[NullStr] => e2.heap[o] = e1.heap[o]

\* a container shows a post without postId filed under sequenceId 1, next to
\* a post with a postId, and was just handed another post map without
\* postId, of sequenceId 2, which added nothing
C32_Witness ==
  /\ lastOp = "addOrUpdatePost"
  /\ lastArg = <<[postId |-> NullStr, sequenceId |-> 2]>>
  /\ lastEffect = "none"
  /\ containsKey(Engine, NullStr)
  /\ heap[postIdMap[NullStr]].sequenceId = 1
  /\ Len(children) = 2
  /\ Cardinality(AbsentChildren(Engine)) = 1

\* the Post a container keeps for a post map it was just handed
Kept(e2, postMap) == e2.heap[e2.postIdMap[Post(postMap).postId]]

\* C33, as claimed: the constructor changes no field the post map supplies,
\* a sequenceId of 0 included: a post map handed to a container that does
\* not index it is kept with the sequenceId it came with, and with its
\* postId unless that is missing.
C33_AsClaimed ==
  \A postMap \in PostMaps :
    ~containsKey(Engine, Post(postMap).postId) =>
      LET kept == Kept(handlePostReceived(Engine, postMap), postMap)
      IN /\ kept.sequenceId = postMap.sequenceId
         /\ kept.postId = IF postMap.postId = NoId THEN NullStr ELSE postMap.postId

\* C33, as coded: every field is postMap.field || null, so a value that is
\* supplied but falsy (the sequenceId 0, the empty postId) is replaced by
\* null like a missing one; no Post and no marker ever holds the sequenceId 0.
C33_AsCoded ==
  /\ \A postMap \in PostMaps :
       ~containsKey(Engine, Post(postMap).postId) =>
         LET kept == Kept(handlePostReceived(Engine, postMap), postMap)
         IN /\ kept.sequenceId = IF postMap.sequenceId = 0 THEN Null ELSE postMap.sequenceId
            /\ kept.postId = IF postMap.postId = NoId THEN NullStr ELSE postMap.postId
  /\ \A o \in DOMAIN heap : heap[o].sequenceId # 0
  /\ lowestSequenceId # 0

\* the requests of a url that a step sent
Sent(url) == {req \in xhr' \ xhr : req.url = url}

\* a step in which reportError_ ran
ErrorCounted == numErrors' > numErrors

\* C34: reportError_ counts the error and returns true exactly when the
\* error is ignorable and no more than 5 errors are counted since the last
\* successful presence answer, which alone resets the count; a failed
\* presence or roster answer is followed by a new request of its kind
\* exactly while that holds, so each loop retries at most 5 times running,
\* and the 6th error running is fatal: nothing is sent, no channel is
\* allocated, the bus is cleared and the timer no longer listened to.
C34_RetryBudget ==
  /\ [](\A opt_ignorable \in BOOLEAN : \A x \in reportError(World, opt_ignorable) :
          /\ x.w.numErrors = numErrors + 1
          /\ x.retry = (opt_ignorable /\ numErrors + 1 <= 5))
  /\ [][numErrors' # numErrors =>
          \/ numErrors' = numErrors + 1
          \/ numErrors' = 0 /\ lastOp' = "handleSetPresenceComplete_"]_vars
  /\ [][(ErrorCounted /\ lastOp' = "handleSetPresenceComplete_") =>
          (Sent("/rpc/presence") # {} <=> numErrors' <= 5)]_vars
  /\ [][(ErrorCounted /\ lastOp' = "handleRequestRosterSuccessful_") =>
          (Sent("/rpc/show_roster") # {} <=> numErrors' <= 5)]_vars
  /\ [][(ErrorCounted /\ numErrors' >= 6) =>
          /\ xhr' \subseteq xhr
          /\ channel' = channel
          /\ bridge' = <<>>
          /\ ~heartbeat'.listening]_vars

\* six presence requests failed one after the other, the first of them the
\* one login() sent: five were retried, the sixth was fatal and none waits
C34_Witness ==
  /\ lastOp = "handleSetPresenceComplete_"
  /\ browserToken = NullStr
  /\ numErrors = 6
  /\ nextMessageId = 12
  /\ xhr = {}
  /\ bridge = <<>>

\* the publishes of a log that called a subscriber
Reached(log) == {i \in 1..Len(log) : log[i].calls # <<>>}

AskedSubscriptions ==
  {<<sub[1], sub[2], [kind |-> "PostContainer", shardId |-> shardId]>> :
     sub \in {ContainerSubscriptions[i] : i \in 1..Len(ContainerSubscriptions)},
     shardId \in ShardIds}

VisibleAt(postId) == {i \in 1..Len(children) : heap[children[i]].postId = postId}

\* the step emptied the container of Shard
Emptied(log) ==
  \E i \in 1..Len(log) : log[i].eventType = "ConnectionReestablishing" /\ log[i].shardId = Shard

\* the step that submits a post puts it at the bottom of the visible
\* posts, under an id no post submitted before has, with no sequenceId
SubmitShows ==
  lastOp' = "SubmitPost"
    => /\ Len(submitted') = Len(submitted) + 1
       /\ Len(children') = Len(children) + 1
       /\ \A i \in 1..Len(children) :
            children'[i] = children[i] /\ heap'[children[i]] = heap[children[i]]
       /\ heap'[children'[Len(children')]] =
            [postId |-> submitted'[Len(submitted')].postId, sequenceId |-> Null]
       /\ \A i \in 1..Len(submitted) :
            submitted'[Len(submitted')].postId # submitted[i].postId

\* the answer of the server that the post is stored changes no container
AnswerLeaves ==
  (lastOp' = "handleSubmitPostSuccessful_" /\ busLog'[1].eventType # "ServerError")
    => UNCHANGED <<heap, postIdMap, children, lowestSequenceId, scrollTop, peer>>

\* the echo of a visible post the user submitted adds no post and moves
\* none, and the Post object already there gets the sequenceId of the server
EchoUpdates ==
  \A i \in 1..Len(submitted) :
    (/\ lastOp' = "handleChannelMessage_"
     /\ busLog'[1].arg.postId = submitted[i].postId
     /\ VisibleAt(submitted[i].postId) # {})
      => \E at \in VisibleAt(submitted[i].postId) :
           /\ children' = children
           /\ postIdMap' = postIdMap
           /\ submitted[i].sequenceId # Null
           /\ heap' = [heap EXCEPT ![children[at]].sequenceId =
                         IF @ = Null THEN submitted[i].sequenceId ELSE @]

\* no step but one that empties the container takes a post the user
\* submitted out of the visible posts
StaysVisible ==
  \A i \in 1..Len(submitted) :
    (VisibleAt(submitted[i].postId) # {} /\ ~Emptied(busLog'))
      => VisibleAt(submitted[i].postId)' # {}

\* C31: a post the user submits is visible once: no post submitted is ever
\* visible twice; the step that submits it puts it at the bottom of the
\* visible posts with no sequenceId; the answer to the request leaves the
\* visible posts as they are; while the post is visible the echo of the
\* channel adds no post and moves none, and gives the sequenceId to the
\* Post object already there; and no step but one that empties the
\* container takes the post out of the visible posts.
C31_SubmittedVisibleOnce ==
  /\ [](\A i \in 1..Len(submitted) : Cardinality(VisibleAt(submitted[i].postId)) <= 1)
  /\ [][SubmitShows /\ AnswerLeaves /\ EchoUpdates /\ StaysVisible]_vars

\* the user submitted a and then b, the server filed a under 1, and the
\* echo of a has just given the sequenceId 1 to the post above b
C31_Witness ==
  /\ lastOp = "handleChannelMessage_"
  /\ lastEffect = "updated"
  /\ Len(children) = 2
  /\ heap[children[1]] = [postId |-> "a", sequenceId |-> 1]
  /\ heap[children[2]] = [postId |-> "b", sequenceId |-> Null]
  /\ submitted = <<[postId |-> "a", sequenceId |-> 1], [postId |-> "b", sequenceId |-> Null]>>

====
